---- MODULE Spec2Model ----
(***************************************************************************)
(* F17FS: a small inode filesystem on a 65,536 x 512-byte block store.     *)
(* The model follows src/unnamed/part_000 (the complete F17FS.c).  The     *)
(* block store and the bitmap library are not part of the sources; they    *)
(* are modelled from the specification (section 4.1, 4.2).                 *)
(*                                                                         *)
(* Representation.                                                         *)
(*  - Byte strings (file payloads, data blocks, read buffers) are run      *)
(*    length encoded: a sequence of <<count, byte>> runs, normalised so    *)
(*    that equal byte strings are equal values.                            *)
(*  - A block of the pool holds raw bytes ("raw"), 256 uint16 pointers     *)
(*    ("idx") or a directory ("dir"); a block that is absent from the      *)
(*    disk map is all zero.  Raw <-> idx reads are converted by the        *)
(*    little-endian overlay.  The byte layout of file_record_t, of the     *)
(*    inode table and of the super-block is not in the sources, so a call  *)
(*    that would read or write one of them through another overlay is      *)
(*    flagged (wild) and is not taken as a step.                           *)
(*  - Inode fields that the code only stamps (times, ids, link count) are  *)
(*    left out.                                                            *)
(*  - size_t values that may exceed 31 bits are four 16-bit limbs.         *)
(***************************************************************************)
EXTENDS Integers, Sequences, FiniteSets, TLC

(* ------------------------------------------------------------------ *)
(* Program constants                                                   *)
(* ------------------------------------------------------------------ *)
BLOCK_STORE_NUM_BLOCKS == 65536
BLOCK_STORE_AVAIL_BLOCKS == 65520
BLOCK_SIZE_BYTES == 512
NumInodes == 256
NumDirect == 6
NumIndex == 256
LastIndirect == 261
NumEntries == 7
NameMax == 63
InodeBlocks == 32
DirMode == 1777
RegMode == 777
DirModeMin == 1000
DirFileSize == 512
Uint8 == 256
Limb == 2 ^ 16
HalfLimb == 2 ^ 15
FS_REGULAR == 0
FS_DIRECTORY == 1
NoBlock == 0 - 1
NumFds == BLOCK_SIZE_BYTES \div 2

(* ------------------------------------------------------------------ *)
(* Run-length encoded byte strings                                     *)
(* ------------------------------------------------------------------ *)
\* (the recursions halve the run sequence, so that their depth stays logarithmic)
RECURSIVE RLen(_)
RLen(r) ==
  IF r = <<>> THEN 0
  ELSE IF Len(r) = 1 THEN r[1][1]
  ELSE RLen(SubSeq(r, 1, Len(r) \div 2)) + RLen(SubSeq(r, Len(r) \div 2 + 1, Len(r)))

RConst(n, v) == IF n <= 0 THEN <<>> ELSE << <<n, v>> >>

RCat(a, b) ==
  IF a = <<>> THEN b
  ELSE IF b = <<>> THEN a
  ELSE LET la == a[Len(a)]
       IN IF la[2] = b[1][2]
          THEN SubSeq(a, 1, Len(a) - 1) \o << <<la[1] + b[1][1], la[2]>> >> \o Tail(b)
          ELSE a \o b

\* the first n bytes of r
RECURSIVE RTake(_, _)
RTake(r, n) ==
  IF n <= 0 \/ r = <<>> THEN <<>>
  ELSE IF Len(r) = 1 THEN << <<IF r[1][1] >= n THEN n ELSE r[1][1], r[1][2]>> >>
  ELSE LET h == SubSeq(r, 1, Len(r) \div 2)
           lh == RLen(h)
       IN IF n > lh THEN h \o RTake(SubSeq(r, Len(r) \div 2 + 1, Len(r)), n - lh)
          ELSE RTake(h, n)

\* r without its first n bytes
RECURSIVE RDrop(_, _)
RDrop(r, n) ==
  IF n <= 0 \/ r = <<>> THEN r
  ELSE IF Len(r) = 1 THEN RConst(r[1][1] - n, r[1][2])
  ELSE LET h == SubSeq(r, 1, Len(r) \div 2)
           lh == RLen(h)
       IN IF n >= lh THEN RDrop(SubSeq(r, Len(r) \div 2 + 1, Len(r)), n - lh)
          ELSE RDrop(h, n) \o SubSeq(r, Len(r) \div 2 + 1, Len(r))

\* byte i (0-based) of r; 0 past its end
RECURSIVE RByteAt(_, _)
RByteAt(r, i) ==
  IF r = <<>> THEN 0
  ELSE IF Len(r) = 1 THEN (IF i < r[1][1] THEN r[1][2] ELSE 0)
  ELSE LET h == SubSeq(r, 1, Len(r) \div 2)
           lh == RLen(h)
       IN IF i < lh THEN RByteAt(h, i)
          ELSE RByteAt(SubSeq(r, Len(r) \div 2 + 1, Len(r)), i - lh)

\* memcpy(block + off, src, n): bytes [off, off+n) of block replaced by src
ROverlay(block, off, src, n) ==
  IF off = 0 /\ n >= BLOCK_SIZE_BYTES THEN RTake(src, n)
  ELSE RCat(RCat(RTake(block, off), RTake(src, n)), RDrop(block, off + n))

\* the function f as an explicit table of its values
Explicit(f) == f @@ <<>>

\* the one element of a singleton set; Once({e(x) : x \in {a}}) is e(a) with
\* a evaluated once
Once(S) == CHOOSE r \in S : TRUE

ZeroBytes == RConst(BLOCK_SIZE_BYTES, 0)
ZeroIndex == Explicit([i \in 1..NumIndex |-> 0])

\* uint16_t[256] overlaid on 512 bytes (host byte order: little-endian)
IndexOfBytes(r) ==
  Explicit([i \in 1..NumIndex |->
              RByteAt(r, 2 * (i - 1)) + 256 * RByteAt(r, 2 * (i - 1) + 1)])

\* the bytes of entries lo..hi of an index block
RECURSIVE BytesOfIndexFrom(_, _, _)
BytesOfIndexFrom(p, lo, hi) ==
  IF lo > hi THEN <<>>
  ELSE IF lo = hi THEN RCat(RConst(1, p[lo] % 256), RConst(1, p[lo] \div 256))
  ELSE RCat(BytesOfIndexFrom(p, lo, (lo + hi) \div 2),
            BytesOfIndexFrom(p, (lo + hi) \div 2 + 1, hi))

BytesOfIndex(p) == BytesOfIndexFrom(p, 1, NumIndex)

(* ------------------------------------------------------------------ *)
(* size_t as four 16-bit limbs, least significant first                *)
(* ------------------------------------------------------------------ *)
SzOfNat(n) == <<n % Limb, n \div Limb, 0, 0>>

\* (size_t) of an int: negative values wrap to 2^64 + x
SzOfInt(x) ==
  IF x >= 0 THEN SzOfNat(x)
  ELSE <<x % Limb, (x \div Limb) + Limb, Limb - 1, Limb - 1>>

SzIsZero(s) == s = <<0, 0, 0, 0>>

SzIsSmall(s) == s[3] = 0 /\ s[4] = 0 /\ s[2] < HalfLimb

SzSmall(s) == s[1] + Limb * s[2]

\* s + n for 0 <= n < 2^31, modulo 2^64
SzAddNat(s, n) ==
  LET a1 == s[1] + (n % Limb)
      a2 == s[2] + (n \div Limb) + (a1 \div Limb)
      a3 == s[3] + (a2 \div Limb)
      a4 == s[4] + (a3 \div Limb)
  IN <<a1 % Limb, a2 % Limb, a3 % Limb, a4 % Limb>>

\* s - n for 0 <= n < 2^16 and n <= s
SzSubNat(s, n) ==
  LET b1 == s[1] - n
      b2 == IF b1 < 0 THEN s[2] - 1 ELSE s[2]
      b3 == IF b2 < 0 THEN s[3] - 1 ELSE s[3]
      b4 == IF b3 < 0 THEN s[4] - 1 ELSE s[4]
  IN <<b1 % Limb, b2 % Limb, b3 % Limb, b4 % Limb>>

\* (int) of a size_t: the low 32 bits, two's complement
SzToInt(s) ==
  IF s[2] >= HalfLimb THEN (s[2] - Limb) * Limb + s[1] ELSE s[2] * Limb + s[1]

\* min(k, s) for a small k
SzMinNat(k, s) == IF SzIsSmall(s) /\ SzSmall(s) < k THEN SzSmall(s) ELSE k

(* ------------------------------------------------------------------ *)
(* Block store (section 4.2 of the specification) and bitmap (4.1)     *)
(* ------------------------------------------------------------------ *)
\* bitmap_ffz over bits 0..n-1: the lowest clear bit, or NoBlock (SIZE_MAX)
\* (the lowest clear bit is bit 0 or the successor of a set bit)
bitmap_ffz(bits, n) ==
  LET clear == {c \in {0} \cup {b + 1 : b \in bits} : c \notin bits /\ c < n}
  IN IF clear = {} THEN NoBlock ELSE CHOOSE c \in clear : \A d \in clear : c <= d

\* block_store_allocate: the lowest free block id below the free-map blocks
block_store_allocate(fbm) == bitmap_ffz(fbm, BLOCK_STORE_AVAIL_BLOCKS)

\* block_store_release: clears the bit; the free map's own bits are never cleared
block_store_release(fbm, b) ==
  IF b >= 0 /\ b < BLOCK_STORE_AVAIL_BLOCKS THEN fbm \ {b} ELSE fbm

\* the free map right after block_store_create: only its own 16 blocks
FbmBlocks == BLOCK_STORE_AVAIL_BLOCKS .. (BLOCK_STORE_NUM_BLOCKS - 1)

\* blocks whose content is the super-block, the inode table or the free map
IsReserved(b) == b <= InodeBlocks \/ b >= BLOCK_STORE_AVAIL_BLOCKS

Kind(disk, b) == IF b \in DOMAIN disk THEN disk[b].k ELSE "zero"

\* block_store_read into a char[512] / uint16_t[256] / directory_t
CanRaw(disk, b) == ~IsReserved(b) /\ Kind(disk, b) # "dir"
RawOf(disk, b) ==
  IF ~CanRaw(disk, b) \/ Kind(disk, b) = "zero" THEN ZeroBytes
  ELSE IF disk[b].k = "raw" THEN disk[b].v
  ELSE BytesOfIndex(disk[b].v)

IdxOf(disk, b) ==
  IF ~CanRaw(disk, b) \/ Kind(disk, b) = "zero" THEN ZeroIndex
  ELSE IF disk[b].k = "idx" THEN disk[b].v
  ELSE IndexOfBytes(disk[b].v)

ZeroEntry == [name |-> <<>>, inodeNumber |-> 0, type |-> 0]
ZeroDir == Explicit([i \in 1..NumEntries |-> ZeroEntry])

CanDir(disk, b) == ~IsReserved(b) /\ Kind(disk, b) \in {"zero", "dir"}
DirOf(disk, b) ==
  IF CanDir(disk, b) /\ Kind(disk, b) = "dir" THEN disk[b].v ELSE ZeroDir

\* block_store_write of 512 bytes; an all-zero block is kept as absent
IsZeroContent(c) ==
  \/ c.k = "raw" /\ c.v = ZeroBytes
  \/ c.k = "idx" /\ c.v = ZeroIndex
  \/ c.k = "dir" /\ c.v = ZeroDir

block_store_write(disk, b, c) ==
  IF IsReserved(b) THEN disk
  ELSE IF IsZeroContent(c) THEN Explicit([x \in DOMAIN disk \ {b} |-> disk[x]])
  ELSE (b :> c) @@ disk

Raw(v) == [k |-> "raw", v |-> v]
Idx(v) == [k |-> "idx", v |-> v]
Dir(v) == [k |-> "dir", v |-> v]

(* ------------------------------------------------------------------ *)
(* Inode table (blocks 1..32) and directory helpers                    *)
(* ------------------------------------------------------------------ *)
ZeroInode ==
  [fileSize |-> 0, fileMode |-> 0, directBlocks |-> [i \in 1..NumDirect |-> 0],
   indirectBlock |-> 0, doubleIndirectBlock |-> 0]

getInodeFromTable(st, index) ==
  IF index \in DOMAIN st.itab THEN st.itab[index] ELSE ZeroInode

writeInodeIntoTable(itab, index, inode) ==
  IF inode = ZeroInode THEN [x \in DOMAIN itab \ {index} |-> itab[x]]
  ELSE [x \in DOMAIN itab \cup {index} |-> IF x = index THEN inode ELSE itab[x]]

\* first slot whose name equals fileName (the inode number is not looked at)
RECURSIVE indexOfNameFrom(_, _, _)
indexOfNameFrom(directory, fileName, i) ==
  IF i >= NumEntries THEN 0 - 1
  ELSE IF directory[i + 1].name = fileName THEN i
  ELSE indexOfNameFrom(directory, fileName, i + 1)

indexOfNameInDirectoryEntries(directory, fileName) ==
  indexOfNameFrom(directory, fileName, 0)

RECURSIVE checkBlockFrom(_, _, _)
checkBlockFrom(directory, fileName, i) ==
  IF i >= NumEntries THEN 0 - 1
  ELSE IF directory[i + 1].inodeNumber = 0 THEN i
  ELSE IF directory[i + 1].name = fileName THEN 0 - 1
  ELSE checkBlockFrom(directory, fileName, i + 1)

checkBlockInDirectory(directory, fileName) == checkBlockFrom(directory, fileName, 0)

\* the for loop of traverseFilePath from character i (1-based) on
RECURSIVE traverseFrom(_, _, _, _, _, _, _)
traverseFrom(st, path, i, name, dir, ino, wild) ==
  IF i > Len(path)
  THEN [ret |-> 0, dir |-> dir, inode |-> ino, name |-> name, wild |-> wild]
  ELSE IF path[i] = "/"
  THEN LET at == indexOfNameInDirectoryEntries(dir, name)
       IN IF at >= 0
          THEN LET nino == getInodeFromTable(st, dir[at + 1].inodeNumber)
                   b == nino.directBlocks[1]
               IN IF nino.fileMode < DirModeMin
                  THEN [ret |-> 0 - 1, dir |-> dir, inode |-> nino, name |-> name,
                        wild |-> wild]
                  ELSE traverseFrom(st, path, i + 1, <<>>, DirOf(st.disk, b), nino,
                                    wild \/ ~CanDir(st.disk, b))
          ELSE [ret |-> 0 - 1, dir |-> dir, inode |-> ino, name |-> name, wild |-> wild]
  ELSE IF Len(name) >= NameMax
  THEN [ret |-> 0 - 1, dir |-> dir, inode |-> ino, name |-> name, wild |-> wild]
  ELSE traverseFrom(st, path, i + 1, Append(name, path[i]), dir, ino, wild)

traverseFilePath(st, path) ==
  LET root == getInodeFromTable(st, 0)
      b == root.directBlocks[1]
  IN IF path[1] # "/" \/ Len(path) = 1
     THEN [ret |-> 0 - 1, dir |-> ZeroDir, inode |-> ZeroInode, name |-> <<>>,
           wild |-> FALSE]
     ELSE traverseFrom(st, path, 2, <<>>, DirOf(st.disk, b), root, ~CanDir(st.disk, b))

(* ------------------------------------------------------------------ *)
(* fs_format, fs_create, fs_open, fs_close                             *)
(* ------------------------------------------------------------------ *)
\* fs_format that leaves bit 0 of the inode bitmap clear
fs_format_NoRootBit ==
  LET fbm0 == FbmBlocks \cup (0..InodeBlocks)
      blockId == block_store_allocate(fbm0)
      rootInode == [ZeroInode EXCEPT !.fileSize = DirFileSize, !.fileMode = DirMode,
                                     !.directBlocks[1] = blockId % Uint8]
  IN [fbm |-> fbm0 \cup {blockId},
      disk |-> block_store_write(<<>>, blockId, Dir(ZeroDir)),
      imap |-> {},
      itab |-> writeInodeIntoTable(<<>>, 0, rootInode),
      fds |-> <<>>]

\* The image and descriptor table fs_format returns: block 0 requested,
\* blocks 1..32 allocated for the inode table, block 33 for the root directory
fs_format ==
  LET fbm0 == FbmBlocks \cup (0..InodeBlocks)
      blockId == block_store_allocate(fbm0)
      rootInode == [ZeroInode EXCEPT !.fileSize = DirFileSize, !.fileMode = DirMode,
                                     !.directBlocks[1] = blockId % Uint8]
  IN [fbm |-> fbm0 \cup {blockId},
      disk |-> block_store_write(<<>>, blockId, Dir(ZeroDir)),
      imap |-> {0},
      itab |-> writeInodeIntoTable(<<>>, 0, rootInode),
      fds |-> <<>>]

Fail(st) == [st |-> st, ret |-> 0 - 1, wild |-> FALSE]
Wild(st) == [st |-> st, ret |-> 0 - 1, wild |-> TRUE]

\* fs_create that takes the block of a new directory before it looks for a free
\* inode, and keeps it when there is none
fs_create_BlockFirst(st, path, type) ==
  IF path = <<>> \/ type \notin {FS_REGULAR, FS_DIRECTORY} THEN Fail(st)
  ELSE
  LET t == traverseFilePath(st, path)
      validSpaceToCreate == checkBlockInDirectory(t.dir, t.name)
      inodeNumber == bitmap_ffz(st.imap, NumInodes)
      old == getInodeFromTable(st, inodeNumber)
      freeDataBlockId == block_store_allocate(st.fbm)
      parentBlock == t.inode.directBlocks[1]
      parent == [t.dir EXCEPT ![validSpaceToCreate + 1] =
                   [name |-> t.name, inodeNumber |-> inodeNumber % Uint8, type |-> type]]
  IN IF t.wild THEN Wild(st)
     ELSE IF t.ret < 0 \/ validSpaceToCreate < 0 THEN Fail(st)
     ELSE IF inodeNumber = NoBlock
     THEN [st |-> IF type = FS_DIRECTORY /\ freeDataBlockId # NoBlock
                  THEN [st EXCEPT !.fbm = st.fbm \cup {freeDataBlockId}] ELSE st,
           ret |-> 0 - 1, wild |-> FALSE]
     ELSE IF type = FS_DIRECTORY
     THEN IF freeDataBlockId = NoBlock THEN Fail(st)
          ELSE LET inode == [old EXCEPT !.fileSize = DirFileSize, !.fileMode = DirMode,
                                        !.directBlocks[1] = freeDataBlockId % Uint8]
                   disk1 == block_store_write(st.disk, freeDataBlockId, Dir(ZeroDir))
               IN IF IsReserved(parentBlock) THEN Wild(st)
                  ELSE [st |-> [st EXCEPT
                                  !.fbm = st.fbm \cup {freeDataBlockId},
                                  !.disk = block_store_write(disk1, parentBlock, Dir(parent)),
                                  !.itab = writeInodeIntoTable(st.itab, inodeNumber, inode),
                                  !.imap = st.imap \cup {inodeNumber}],
                        ret |-> 0, wild |-> FALSE]
     ELSE LET inode == [old EXCEPT !.fileSize = 0, !.fileMode = RegMode]
          IN IF IsReserved(parentBlock) THEN Wild(st)
             ELSE [st |-> [st EXCEPT
                             !.disk = block_store_write(st.disk, parentBlock, Dir(parent)),
                             !.itab = writeInodeIntoTable(st.itab, inodeNumber, inode),
                             !.imap = st.imap \cup {inodeNumber}],
                   ret |-> 0, wild |-> FALSE]

fs_create(st, path, type) ==
  IF path = <<>> \/ type \notin {FS_REGULAR, FS_DIRECTORY} THEN Fail(st)
  ELSE
  LET t == traverseFilePath(st, path)
      validSpaceToCreate == checkBlockInDirectory(t.dir, t.name)
      inodeNumber == bitmap_ffz(st.imap, NumInodes)
      old == getInodeFromTable(st, inodeNumber)
      freeDataBlockId == block_store_allocate(st.fbm)
      parentBlock == t.inode.directBlocks[1]
      parent == [t.dir EXCEPT ![validSpaceToCreate + 1] =
                   [name |-> t.name, inodeNumber |-> inodeNumber % Uint8, type |-> type]]
  IN IF t.wild THEN Wild(st)
     ELSE IF t.ret < 0 \/ validSpaceToCreate < 0 \/ inodeNumber = NoBlock THEN Fail(st)
     ELSE IF type = FS_DIRECTORY
     THEN IF freeDataBlockId = NoBlock THEN Fail(st)
          ELSE LET inode == [old EXCEPT !.fileSize = DirFileSize, !.fileMode = DirMode,
                                        !.directBlocks[1] = freeDataBlockId % Uint8]
                   disk1 == block_store_write(st.disk, freeDataBlockId, Dir(ZeroDir))
               IN IF IsReserved(parentBlock) THEN Wild(st)
                  ELSE [st |-> [st EXCEPT
                                  !.fbm = st.fbm \cup {freeDataBlockId},
                                  !.disk = block_store_write(disk1, parentBlock, Dir(parent)),
                                  !.itab = writeInodeIntoTable(st.itab, inodeNumber, inode),
                                  !.imap = st.imap \cup {inodeNumber}],
                        ret |-> 0, wild |-> FALSE]
     ELSE LET inode == [old EXCEPT !.fileSize = 0, !.fileMode = RegMode]
          IN IF IsReserved(parentBlock) THEN Wild(st)
             ELSE [st |-> [st EXCEPT
                             !.disk = block_store_write(st.disk, parentBlock, Dir(parent)),
                             !.itab = writeInodeIntoTable(st.itab, inodeNumber, inode),
                             !.imap = st.imap \cup {inodeNumber}],
                   ret |-> 0, wild |-> FALSE]

\* fs_open with a descriptor bitmap one bit short
fs_open_ShortBitmap(st, path) ==
  IF path = <<>> THEN Fail(st)
  ELSE
  LET t == traverseFilePath(st, path)
      fileLocation == indexOfNameInDirectoryEntries(t.dir, t.name)
      indexOfFileDescriptor == bitmap_ffz(DOMAIN st.fds, NumFds - 1)
  IN IF t.wild THEN Wild(st)
     ELSE IF t.ret < 0 \/ fileLocation < 0 \/ indexOfFileDescriptor = NoBlock THEN Fail(st)
     ELSE IF t.dir[fileLocation + 1].type = FS_DIRECTORY THEN Fail(st)
     ELSE [st |-> [st EXCEPT !.fds =
                     [x \in DOMAIN st.fds \cup {indexOfFileDescriptor} |->
                        IF x = indexOfFileDescriptor
                        THEN [inodeNumber |-> t.dir[fileLocation + 1].inodeNumber,
                              filePosition |-> 0]
                        ELSE st.fds[x]]],
           ret |-> indexOfFileDescriptor, wild |-> FALSE]

\* fs_open without the test of the entry's type
fs_open_AnyType(st, path) ==
  IF path = <<>> THEN Fail(st)
  ELSE
  LET t == traverseFilePath(st, path)
      fileLocation == indexOfNameInDirectoryEntries(t.dir, t.name)
      indexOfFileDescriptor == bitmap_ffz(DOMAIN st.fds, NumFds)
  IN IF t.wild THEN Wild(st)
     ELSE IF t.ret < 0 \/ fileLocation < 0 \/ indexOfFileDescriptor = NoBlock THEN Fail(st)
     ELSE [st |-> [st EXCEPT !.fds =
                     [x \in DOMAIN st.fds \cup {indexOfFileDescriptor} |->
                        IF x = indexOfFileDescriptor
                        THEN [inodeNumber |-> t.dir[fileLocation + 1].inodeNumber,
                              filePosition |-> 0]
                        ELSE st.fds[x]]],
           ret |-> indexOfFileDescriptor, wild |-> FALSE]

\* the descriptor table: fds is defined exactly on the descriptors whose bit is
\* set in fs->bitmap; a slot that is not in use holds zeroes
fs_open(st, path) ==
  IF path = <<>> THEN Fail(st)
  ELSE
  LET t == traverseFilePath(st, path)
      fileLocation == indexOfNameInDirectoryEntries(t.dir, t.name)
      indexOfFileDescriptor == bitmap_ffz(DOMAIN st.fds, NumFds)
  IN IF t.wild THEN Wild(st)
     ELSE IF t.ret < 0 \/ fileLocation < 0 \/ indexOfFileDescriptor = NoBlock THEN Fail(st)
     ELSE IF t.dir[fileLocation + 1].type = FS_DIRECTORY THEN Fail(st)
     ELSE [st |-> [st EXCEPT !.fds =
                     [x \in DOMAIN st.fds \cup {indexOfFileDescriptor} |->
                        IF x = indexOfFileDescriptor
                        THEN [inodeNumber |-> t.dir[fileLocation + 1].inodeNumber,
                              filePosition |-> 0]
                        ELSE st.fds[x]]],
           ret |-> indexOfFileDescriptor, wild |-> FALSE]

\* fs_close that also clears the inode-bitmap bit of the file it closes
fs_close_FreesInode(st, fd) ==
  IF fd < 0 \/ fd > 255 \/ fd \notin DOMAIN st.fds THEN Fail(st)
  ELSE [st |-> [st EXCEPT !.fds = [x \in DOMAIN st.fds \ {fd} |-> st.fds[x]],
                          !.imap = @ \ {st.fds[fd].inodeNumber}],
        ret |-> 0, wild |-> FALSE]

fs_close(st, fd) ==
  IF fd < 0 \/ fd > 255 \/ fd \notin DOMAIN st.fds THEN Fail(st)
  ELSE [st |-> [st EXCEPT !.fds = [x \in DOMAIN st.fds \ {fd} |-> st.fds[x]]],
        ret |-> 0, wild |-> FALSE]

(* ------------------------------------------------------------------ *)
(* fs_unmount, fs_mount and the backing file                           *)
(* ------------------------------------------------------------------ *)
\* byte i of the free-block bitmap: bit k of the byte stands for block 8 * i + k
FbmByte(fbm, i) ==
  LET bit(k) == IF 8 * i + k \in fbm THEN 2 ^ k ELSE 0
  IN bit(0) + bit(1) + bit(2) + bit(3) + bit(4) + bit(5) + bit(6) + bit(7)

\* the bitmap as stored in the last 16 blocks: its non-zero bytes, by byte index
FbmBytes(fbm) == Explicit([i \in {b \div 8 : b \in fbm} |-> FbmByte(fbm, i)])

\* the bitmap rebuilt from its stored bytes
FbmOfBytes(map) ==
  {b \in 0..(BLOCK_STORE_NUM_BLOCKS - 1) :
     (b \div 8) \in DOMAIN map /\ (map[b \div 8] \div (2 ^ (b % 8))) % 2 = 1}

\* block_store_destroy: the backing file after the flush (super-block, inode
\* table, pool blocks and the free map's 16 blocks)
block_store_destroy(st) ==
  [super |-> st.imap, table |-> st.itab, pool |-> st.disk, map |-> FbmBytes(st.fbm)]

\* block_store_open: the store read back from the backing file
block_store_open(file) ==
  [fbm |-> FbmOfBytes(file.map), disk |-> file.pool, imap |-> file.super, itab |-> file.table]

\* fs_unmount that frees the handle without flushing the store
fs_unmount_NoFlush(st, file) == [file |-> file, ret |-> 0]

\* fs_unmount of a mounted handle: file is the backing file before the call
fs_unmount(st, file) == [file |-> block_store_destroy(st), ret |-> 0]

\* fs_mount of an existing image: a fresh handle, no descriptor in use
fs_mount(file) ==
  LET blockStore == block_store_open(file)
  IN [st |-> [fbm |-> blockStore.fbm, disk |-> blockStore.disk, imap |-> blockStore.imap,
              itab |-> blockStore.itab, fds |-> <<>>],
      ret |-> 0, wild |-> FALSE]

(* ------------------------------------------------------------------ *)
(* fs_get_dir                                                          *)
(* ------------------------------------------------------------------ *)
\* a pool block whose 512 bytes all hold the same non-zero value c: read into a
\* directory_t, every byte of every record is c, wherever the fields lie
IsUniform(disk, b) ==
  /\ ~IsReserved(b)
  /\ Kind(disk, b) = "raw"
  /\ Len(disk[b].v) = 1
  /\ disk[b].v[1][1] = BLOCK_SIZE_BYTES
  /\ disk[b].v[1][2] # 0

UniformEntry(c) == [name |-> [i \in 1..(NameMax + 1) |-> c], inodeNumber |-> c, type |-> c]

\* the for loop of fs_get_dir: the in-use entries, each pushed to the front
pushInUse(directory) ==
  SelectSeq([i \in 1..NumEntries |-> directory[NumEntries + 1 - i]],
            LAMBDA e : e.inodeNumber # 0)

\* block_store_read of block b into a directory_t, then the loop
listBlock(st, b) ==
  IF CanDir(st.disk, b)
  THEN [st |-> st, ret |-> 0, buf |-> pushInUse(DirOf(st.disk, b)), wild |-> FALSE]
  ELSE IF IsUniform(st.disk, b)
  THEN [st |-> st, ret |-> 0,
        buf |-> [i \in 1..NumEntries |-> UniformEntry(st.disk[b].v[1][2])], wild |-> FALSE]
  ELSE [st |-> st, ret |-> 0 - 1, buf |-> <<>>, wild |-> TRUE]

NoList(st) == [st |-> st, ret |-> 0 - 1, buf |-> <<>>, wild |-> FALSE]

\* ret is 0 for a dyn_array and -1 for NULL; buf is the array, front first
fs_get_dir(st, path) ==
  IF path = <<>> THEN NoList(st)
  ELSE IF Len(path) = 1 /\ path[1] = "/"
  THEN listBlock(st, getInodeFromTable(st, 0).directBlocks[1])
  ELSE
  LET t == traverseFilePath(st, path)
      fileLocation == indexOfNameInDirectoryEntries(t.dir, t.name)
      inodeForParent == getInodeFromTable(st, t.dir[fileLocation + 1].inodeNumber)
  IN IF t.wild THEN [st |-> st, ret |-> 0 - 1, buf |-> <<>>, wild |-> TRUE]
     ELSE IF t.ret < 0 \/ fileLocation < 0 THEN NoList(st)
     ELSE IF t.dir[fileLocation + 1].type = FS_REGULAR THEN NoList(st)
     ELSE listBlock(st, inodeForParent.directBlocks[1])

(* ------------------------------------------------------------------ *)
(* fs_seek                                                             *)
(* ------------------------------------------------------------------ *)
\* off_t is a signed 64-bit integer, kept as the four limbs of its two's complement
Off64Max == <<Limb - 1, Limb - 1, Limb - 1, HalfLimb - 1>>
OffOfInt(x) == SzOfInt(x)
OffIsNeg(o) == o[4] >= HalfLimb

calculateOffset(fileSize, seekLocation) ==
  IF OffIsNeg(seekLocation) \/ SzIsZero(seekLocation) THEN 0
  ELSE IF ~SzIsSmall(seekLocation) \/ SzSmall(seekLocation) > fileSize THEN fileSize
  ELSE SzSmall(seekLocation)

\* base + offset in off_t, for an int base >= 0.  A sum past 2^63 - 1 is a signed
\* overflow (undefined): env.ovf chooses between the wrapped sum and the sum a
\* build that assumes no overflow works with (larger than every file size)
offsetFrom(base, offset, env) ==
  LET sum == SzAddNat(offset, base)
  IN IF ~OffIsNeg(offset) /\ OffIsNeg(sum)
     THEN (IF env.ovf = "wrap" THEN sum ELSE Off64Max)
     ELSE sum

fs_seek(st, fd, offset, whence, env) ==
  IF fd < 0 \/ fd > 255 \/ fd \notin DOMAIN st.fds THEN Fail(st)
  ELSE
  LET fileSize == getInodeFromTable(st, st.fds[fd].inodeNumber).fileSize
      seekLocation ==
        CASE whence = "SET" -> calculateOffset(fileSize, offset)
          [] whence = "CUR" ->
               calculateOffset(fileSize, offsetFrom(st.fds[fd].filePosition, offset, env))
          [] whence = "END" -> calculateOffset(fileSize, offsetFrom(fileSize, offset, env))
          [] OTHER -> 0 - 1
  IN IF whence \notin {"SET", "CUR", "END"} THEN Fail(st)
     ELSE [st |-> [st EXCEPT !.fds[fd].filePosition = seekLocation],
           ret |-> seekLocation, wild |-> FALSE]

(* ------------------------------------------------------------------ *)
(* fs_read and its three tiers; a result is the bytes copied to dst    *)
(* ------------------------------------------------------------------ *)
RECURSIVE readDirectBlocks(_, _, _, _, _)
RECURSIVE readIndirectLoop(_, _, _, _)
RECURSIVE readIndirectBlock(_, _, _, _, _, _)
RECURSIVE readDoubleIndirectBlocks(_, _, _, _, _)

NoBytes == [b |-> <<>>, wild |-> FALSE]
Prepend(bytes, wild, r) == [b |-> RCat(bytes, r.b), wild |-> wild \/ r.wild]

readDirectBlocks(st, inode, fileBlockNumber, byteAtPositionInFileBlock, count) ==
  Once({
  LET physicalBlock == inode.directBlocks[fileBlockNumber + 1]
      bytesToReadFromLocation ==
        SzMinNat(BLOCK_SIZE_BYTES - byteAtPositionInFileBlock, nbytes)
      got == RTake(RDrop(RawOf(st.disk, physicalBlock), byteAtPositionInFileBlock),
                   bytesToReadFromLocation)
      wild == ~CanRaw(st.disk, physicalBlock)
      rest == SzSubNat(nbytes, bytesToReadFromLocation)
  IN IF physicalBlock = 0 THEN NoBytes
     ELSE IF ~SzIsZero(rest) /\ fileBlockNumber + 1 < NumDirect
     THEN Prepend(got, wild, readDirectBlocks(st, inode, fileBlockNumber + 1, 0, rest))
     ELSE IF ~SzIsZero(rest)
     THEN Prepend(got, wild, readIndirectBlock(st, inode, fileBlockNumber + 1, 0, rest,
                                               inode.indirectBlock))
     ELSE [b |-> got, wild |-> wild]
  : nbytes \in {count}})

\* one pass of the while loop of readIndirectBlock; s.stop is the early return
readIndirectStep(st, ptrs, s) ==
  IF s.stop \/ SzIsZero(s.nbytes) \/ s.loc >= NumIndex THEN s
  ELSE IF ptrs[s.loc + 1] = 0 THEN [s EXCEPT !.stop = TRUE]
  ELSE LET chunk == SzMinNat(BLOCK_SIZE_BYTES - s.off, s.nbytes)
           got == RTake(RDrop(RawOf(st.disk, ptrs[s.loc + 1]), s.off), chunk)
       IN [b |-> RCat(s.b, got), wild |-> s.wild \/ ~CanRaw(st.disk, ptrs[s.loc + 1]),
           loc |-> s.loc + 1, off |-> 0, nbytes |-> SzSubNat(s.nbytes, chunk),
           fileBlockNumber |-> s.fileBlockNumber + 1, stop |-> FALSE]

\* k passes of the loop
readIndirectLoop(st, ptrs, s, k) ==
  IF k <= 0 \/ s.stop \/ SzIsZero(s.nbytes) THEN s
  ELSE IF k = 1 THEN readIndirectStep(st, ptrs, s)
  ELSE Once({readIndirectLoop(st, ptrs, m, k - k \div 2) :
               m \in {readIndirectLoop(st, ptrs, s, k \div 2)}})

readIndirectBlock(st, inode, fileBlockNumber, byteAtPositionInFileBlock, nbytes, blockStoreBlockId) ==
  LET indirectBlockLocation == (fileBlockNumber - NumDirect) % NumIndex
      s0 == [b |-> <<>>, wild |-> ~CanRaw(st.disk, blockStoreBlockId),
             loc |-> indirectBlockLocation, off |-> byteAtPositionInFileBlock,
             nbytes |-> nbytes, fileBlockNumber |-> fileBlockNumber, stop |-> FALSE]
  IN IF blockStoreBlockId = 0 THEN NoBytes
     ELSE Once({
       IF ~s.stop /\ ~SzIsZero(s.nbytes)
       THEN Prepend(s.b, s.wild,
                    readDoubleIndirectBlocks(st, inode, s.fileBlockNumber, 0, s.nbytes))
       ELSE [b |-> s.b, wild |-> s.wild]
       : s \in {Once({readIndirectLoop(st, ptrs, first, NumIndex - indirectBlockLocation) :
                        ptrs \in {IdxOf(st.disk, blockStoreBlockId)}, first \in {s0}})}})

readDoubleIndirectBlocks(st, inode, fileBlockNumber, byteAtPositionInFileBlock, nbytes) ==
  LET outer == IdxOf(st.disk, inode.doubleIndirectBlock)
      index == (fileBlockNumber - LastIndirect) \div NumIndex
  IN IF inode.doubleIndirectBlock = 0 THEN NoBytes
     ELSE IF index >= NumIndex \/ ~CanRaw(st.disk, inode.doubleIndirectBlock)
     THEN [b |-> <<>>, wild |-> TRUE]
     ELSE IF outer[index + 1] = 0 THEN NoBytes
     ELSE readIndirectBlock(st, inode, fileBlockNumber, byteAtPositionInFileBlock, nbytes,
                            outer[index + 1])

\* nbyte is a size_t (limbs); the result carries the bytes copied to dst
fs_read(st, fd, nbyte) ==
  IF fd < 0 \/ fd > 255 THEN [st |-> st, ret |-> 0 - 1, buf |-> <<>>, wild |-> FALSE]
  ELSE IF SzIsZero(nbyte) THEN [st |-> st, ret |-> 0, buf |-> <<>>, wild |-> FALSE]
  ELSE IF fd \notin DOMAIN st.fds
  THEN [st |-> st, ret |-> 0 - 1, buf |-> <<>>, wild |-> FALSE]
  ELSE
  LET fileInode == getInodeFromTable(st, st.fds[fd].inodeNumber)
      currentFilePosition == st.fds[fd].filePosition
      requestedReadAmount ==
        IF SzToInt(SzAddNat(nbyte, currentFilePosition)) > fileInode.fileSize
        THEN SzOfInt(fileInode.fileSize - currentFilePosition)
        ELSE nbyte
      fileBlockNumber == currentFilePosition \div BLOCK_SIZE_BYTES
      byteAtPositionInFileBlock == currentFilePosition % BLOCK_SIZE_BYTES
      r == IF fileBlockNumber < NumDirect
           THEN readDirectBlocks(st, fileInode, fileBlockNumber, byteAtPositionInFileBlock,
                                 requestedReadAmount)
           ELSE IF fileBlockNumber <= LastIndirect
           THEN readIndirectBlock(st, fileInode, fileBlockNumber, byteAtPositionInFileBlock,
                                  requestedReadAmount, fileInode.indirectBlock)
           ELSE readDoubleIndirectBlocks(st, fileInode, fileBlockNumber,
                                         byteAtPositionInFileBlock, requestedReadAmount)
      totalBytesRead == RLen(r.b)
  IN [st |-> [st EXCEPT !.fds[fd].filePosition = @ + totalBytesRead],
      ret |-> totalBytesRead, buf |-> r.b, wild |-> r.wild]

(* ------------------------------------------------------------------ *)
(* fs_write and its three tiers                                        *)
(* w = [fbm, disk, inode, wild]: the block store and the inode copy    *)
(* the call works on.  env.g is the byte read past the end of the      *)
(* caller's buffer, env.oob the uint16 read past the end of a local    *)
(* array (both undefined behaviour, chosen by the caller of the model) *)
(* ------------------------------------------------------------------ *)
RECURSIVE handleDirectBlocks(_, _, _, _, _, _)
RECURSIVE handleIndirectLoop(_, _)
RECURSIVE handleIndirectBlock(_, _, _, _, _, _, _)
RECURSIVE handleDoubleIndirectBlocks(_, _, _, _, _, _)

Plus(n, r) == [w |-> r.w, n |-> n + r.n]

handleDirectBlocks(block, fileBlockNumber, byteAtPositionInFileBlock, src, count, env) ==
  Once({
  LET needBlock == w.inode.directBlocks[fileBlockNumber + 1] = 0
      allocated == block_store_allocate(w.fbm)
      physicalBlock == IF needBlock THEN allocated
                       ELSE w.inode.directBlocks[fileBlockNumber + 1]
      bytesToWriteFromLocation ==
        IF BLOCK_SIZE_BYTES - byteAtPositionInFileBlock > nbytes THEN nbytes
        ELSE BLOCK_SIZE_BYTES - byteAtPositionInFileBlock
      \* needBlock: memcpy(readDataBlock, data, 512), whatever the offset and nbytes
      readDataBlock ==
        IF needBlock
        THEN RCat(RTake(data, BLOCK_SIZE_BYTES), RConst(BLOCK_SIZE_BYTES - nbytes, env.g))
        ELSE ROverlay(RawOf(w.disk, physicalBlock), byteAtPositionInFileBlock, data,
                      bytesToWriteFromLocation)
      w1 == [fbm |-> IF needBlock THEN w.fbm \cup {physicalBlock} ELSE w.fbm,
             disk |-> block_store_write(w.disk, physicalBlock, Raw(readDataBlock)),
             inode |-> IF needBlock
                       THEN [w.inode EXCEPT !.directBlocks[fileBlockNumber + 1] =
                                              physicalBlock % Limb]
                       ELSE w.inode,
             wild |-> w.wild \/ IsReserved(physicalBlock)
                      \/ (~needBlock /\ ~CanRaw(w.disk, physicalBlock))]
      rest == nbytes - bytesToWriteFromLocation
      more == RDrop(data, bytesToWriteFromLocation)
      indirect == w1.inode.indirectBlock
      allocated2 == block_store_allocate(w1.fbm)
      w2 == IF indirect = 0
            THEN [w1 EXCEPT !.fbm = @ \cup {allocated2},
                            !.inode.indirectBlock = allocated2 % Limb,
                            !.disk = block_store_write(@, allocated2, Idx(ZeroIndex))]
            ELSE w1
  IN IF needBlock /\ allocated = NoBlock THEN [w |-> w, n |-> 0]
     ELSE IF rest > 0 /\ fileBlockNumber + 1 < NumDirect
     THEN Plus(bytesToWriteFromLocation,
               handleDirectBlocks(w1, fileBlockNumber + 1, 0, more, rest, env))
     ELSE IF rest > 0
     THEN IF indirect = 0 /\ allocated2 = NoBlock THEN [w |-> w1, n |-> 0]
          ELSE Plus(bytesToWriteFromLocation,
                    handleIndirectBlock(w2, fileBlockNumber + 1, 0, more, rest,
                                        IF indirect = 0 THEN allocated2 ELSE indirect, env))
     ELSE [w |-> w1, n |-> bytesToWriteFromLocation]
  : w \in {block}, data \in {src}, nbytes \in {count}})

\* one pass of the while loop of handleIndirectBlock over ptrs, the in-memory
\* copy of the index block; s.stop is the early return on a failed allocation
handleIndirectStep(s) ==
  IF s.stop \/ s.nbytes <= 0 \/ s.loc >= NumIndex THEN s
  ELSE LET need == s.ptrs[s.loc + 1] = 0
           allocated == block_store_allocate(s.w.fbm)
           physicalBlock == IF need THEN allocated ELSE s.ptrs[s.loc + 1]
           chunk == IF BLOCK_SIZE_BYTES - s.off > s.nbytes THEN s.nbytes
                    ELSE BLOCK_SIZE_BYTES - s.off
           \* the block is read back from disk even when it was just allocated
           tempBlockdata == ROverlay(RawOf(s.w.disk, physicalBlock), s.off, s.data, chunk)
       IN IF need /\ allocated = NoBlock THEN [s EXCEPT !.stop = TRUE]
          ELSE [w |-> [s.w EXCEPT
                         !.fbm = IF need THEN @ \cup {physicalBlock} ELSE @,
                         !.disk = block_store_write(@, physicalBlock, Raw(tempBlockdata)),
                         !.wild = @ \/ ~CanRaw(s.w.disk, physicalBlock)],
                ptrs |-> [s.ptrs EXCEPT ![s.loc + 1] = physicalBlock % Limb],
                loc |-> s.loc + 1, off |-> 0, data |-> RDrop(s.data, chunk),
                nbytes |-> s.nbytes - chunk, fileBlockNumber |-> s.fileBlockNumber + 1,
                total |-> s.total + chunk, stop |-> FALSE]

\* k passes of the loop
handleIndirectLoop(s, k) ==
  IF k <= 0 \/ s.stop \/ s.nbytes <= 0 THEN s
  ELSE IF k = 1 THEN handleIndirectStep(s)
  ELSE Once({handleIndirectLoop(m, k - k \div 2) : m \in {handleIndirectLoop(s, k \div 2)}})

handleIndirectBlock(w, fileBlockNumber, byteAtPositionInFileBlock, data, nbytes, blockStoreBlockId, env) ==
  LET indirectBlockLocation == (fileBlockNumber - NumDirect) % NumIndex
      s0 == [w |-> [w EXCEPT !.wild = @ \/ ~CanRaw(w.disk, blockStoreBlockId)],
             ptrs |-> IdxOf(w.disk, blockStoreBlockId),
             loc |-> indirectBlockLocation, off |-> byteAtPositionInFileBlock,
             data |-> data, nbytes |-> nbytes, fileBlockNumber |-> fileBlockNumber,
             total |-> 0, stop |-> FALSE]
  IN Once({
       IF ~s.stop /\ s.nbytes > 0
       THEN Plus(s.total,
                 handleDoubleIndirectBlocks(
                   [s.w EXCEPT !.disk = block_store_write(@, blockStoreBlockId, Idx(s.ptrs))],
                   s.fileBlockNumber, 0, s.data, s.nbytes, env))
       ELSE [w |-> [s.w EXCEPT
                      !.disk = block_store_write(@, blockStoreBlockId, Idx(s.ptrs))],
             n |-> s.total]
       : s \in {Once({handleIndirectLoop(first, NumIndex - indirectBlockLocation) :
                        first \in {s0}})}})

handleDoubleIndirectBlocks(block, fileBlockNumber, byteAtPositionInFileBlock, data, nbytes, env) ==
  Once({
  LET fresh == w.inode.doubleIndirectBlock = 0
      allocated == block_store_allocate(w.fbm)
      w1 == IF fresh
            THEN [w EXCEPT !.fbm = @ \cup {allocated},
                           !.inode.doubleIndirectBlock = allocated % Limb]
            ELSE [w EXCEPT !.wild = @ \/ ~CanRaw(w.disk, w.inode.doubleIndirectBlock)]
      outerId == w1.inode.doubleIndirectBlock
      \* a fresh outer block is cleared in memory only
      readDoubleIndirectData == IF fresh THEN ZeroIndex ELSE IdxOf(w.disk, outerId)
      index == (fileBlockNumber - LastIndirect) \div NumIndex
      allocated2 == block_store_allocate(w1.fbm)
      w2 == [w1 EXCEPT !.fbm = @ \cup {allocated2},
                       !.disk = block_store_write(@, outerId,
                                  Idx([readDoubleIndirectData EXCEPT ![index + 1] =
                                         allocated2 % Limb]))]
  IN IF fresh /\ allocated = NoBlock THEN [w |-> w, n |-> 0]
     ELSE IF index >= NumIndex THEN [w |-> [w1 EXCEPT !.wild = TRUE], n |-> 0]
     ELSE IF readDoubleIndirectData[index + 1] = 0
     THEN IF allocated2 = NoBlock THEN [w |-> w1, n |-> 0]
          ELSE handleIndirectBlock(w2, fileBlockNumber, byteAtPositionInFileBlock, data,
                                   nbytes, allocated2, env)
     ELSE handleIndirectBlock(w1, fileBlockNumber, byteAtPositionInFileBlock, data, nbytes,
                              readDoubleIndirectData[index + 1], env)
  : w \in {block}})

\* fs_write that stores the inode with its old fileSize
fs_write_SizeKept(st, fd, src, env) ==
  IF fd < 0 \/ fd > 255 THEN Fail(st)
  ELSE IF src = <<>> THEN [st |-> st, ret |-> 0, wild |-> FALSE]
  ELSE IF fd \notin DOMAIN st.fds THEN Fail(st)
  ELSE
  LET nbyte == RLen(src)
      inodeLocation == st.fds[fd].inodeNumber
      w0 == [fbm |-> st.fbm, disk |-> st.disk,
             inode |-> getInodeFromTable(st, inodeLocation), wild |-> FALSE]
      currentFilePosition == st.fds[fd].filePosition
      fileBlockNumber == currentFilePosition \div BLOCK_SIZE_BYTES
      byteAtPositionInFileBlock == currentFilePosition % BLOCK_SIZE_BYTES
      allocated == block_store_allocate(st.fbm)
      noIndirect == fileBlockNumber >= NumDirect /\ fileBlockNumber < LastIndirect
                    /\ w0.inode.indirectBlock = 0
      w1 == IF noIndirect
            THEN [w0 EXCEPT !.fbm = @ \cup {allocated},
                            !.inode.indirectBlock = allocated % Limb,
                            !.disk = block_store_write(@, allocated, Idx(ZeroIndex))]
            ELSE w0
      r == IF fileBlockNumber < NumDirect
           THEN handleDirectBlocks(w0, fileBlockNumber, byteAtPositionInFileBlock, src,
                                   nbyte, env)
           ELSE IF fileBlockNumber < LastIndirect
           THEN handleIndirectBlock(w1, fileBlockNumber, byteAtPositionInFileBlock, src,
                                    nbyte, w1.inode.indirectBlock, env)
           ELSE handleDoubleIndirectBlocks(w0, fileBlockNumber, byteAtPositionInFileBlock,
                                           src, nbyte, env)
  IN IF noIndirect /\ allocated = NoBlock THEN [st |-> st, ret |-> 0, wild |-> FALSE]
     ELSE [st |-> [st EXCEPT
                     !.fbm = r.w.fbm,
                     !.disk = r.w.disk,
                     !.fds[fd].filePosition = @ + r.n,
                     !.itab = writeInodeIntoTable(st.itab, inodeLocation,
                                r.w.inode)],
           ret |-> r.n, wild |-> r.w.wild]

\* src is the caller's buffer, nbyte = its length
fs_write(st, fd, src, env) ==
  IF fd < 0 \/ fd > 255 THEN Fail(st)
  ELSE IF src = <<>> THEN [st |-> st, ret |-> 0, wild |-> FALSE]
  ELSE IF fd \notin DOMAIN st.fds THEN Fail(st)
  ELSE
  LET nbyte == RLen(src)
      inodeLocation == st.fds[fd].inodeNumber
      w0 == [fbm |-> st.fbm, disk |-> st.disk,
             inode |-> getInodeFromTable(st, inodeLocation), wild |-> FALSE]
      currentFilePosition == st.fds[fd].filePosition
      fileBlockNumber == currentFilePosition \div BLOCK_SIZE_BYTES
      byteAtPositionInFileBlock == currentFilePosition % BLOCK_SIZE_BYTES
      allocated == block_store_allocate(st.fbm)
      noIndirect == fileBlockNumber >= NumDirect /\ fileBlockNumber < LastIndirect
                    /\ w0.inode.indirectBlock = 0
      w1 == IF noIndirect
            THEN [w0 EXCEPT !.fbm = @ \cup {allocated},
                            !.inode.indirectBlock = allocated % Limb,
                            !.disk = block_store_write(@, allocated, Idx(ZeroIndex))]
            ELSE w0
      r == IF fileBlockNumber < NumDirect
           THEN handleDirectBlocks(w0, fileBlockNumber, byteAtPositionInFileBlock, src,
                                   nbyte, env)
           ELSE IF fileBlockNumber < LastIndirect
           THEN handleIndirectBlock(w1, fileBlockNumber, byteAtPositionInFileBlock, src,
                                    nbyte, w1.inode.indirectBlock, env)
           ELSE handleDoubleIndirectBlocks(w0, fileBlockNumber, byteAtPositionInFileBlock,
                                           src, nbyte, env)
  IN IF noIndirect /\ allocated = NoBlock THEN [st |-> st, ret |-> 0, wild |-> FALSE]
     ELSE [st |-> [st EXCEPT
                     !.fbm = r.w.fbm,
                     !.disk = r.w.disk,
                     !.fds[fd].filePosition = @ + r.n,
                     !.itab = writeInodeIntoTable(st.itab, inodeLocation,
                                [r.w.inode EXCEPT !.fileSize = @ + r.n])],
           ret |-> r.n, wild |-> r.w.wild]

(* ------------------------------------------------------------------ *)
(* fs_remove                                                           *)
(* ------------------------------------------------------------------ *)
\* block_store_release of every non-zero entry of ptrs[1..n]
releaseAll(fbm, ptrs, n) ==
  fbm \ {ptrs[i] : i \in {j \in 1..n : ptrs[j] # 0 /\ ptrs[j] < BLOCK_STORE_AVAIL_BLOCKS}}

\* the lowest i (0-based) with ptrs[i] # 0, or NumIndex
firstNonZero(ptrs) ==
  LET nz == {i \in 0..(NumIndex - 1) : ptrs[i + 1] # 0}
  IN IF nz = {} THEN NumIndex ELSE CHOOSE i \in nz : \A j \in nz : i <= j

\* lines 883-887: for (i = 0; i < 7; i++) over directBlocks[6]; element 6 is the
\* struct member that follows the array, indirectBlock
releaseDirect(fbm, inode) ==
  LET fbm1 == releaseAll(fbm, inode.directBlocks, NumDirect)
  IN IF inode.indirectBlock # 0 THEN block_store_release(fbm1, inode.indirectBlock) ELSE fbm1

\* lines 889-898
releaseIndirect(st, fbm, inode) ==
  IF inode.indirectBlock = 0 THEN fbm
  ELSE block_store_release(releaseAll(fbm, IdxOf(st.disk, inode.indirectBlock), NumIndex),
                           inode.indirectBlock)

\* lines 901-923: the inner loop counts with i, not j: it releases indirectData[0]
\* of the first inner block only, leaves i = 256, then releases
\* doubleIndirectData[256] (one element past the array: env.oob) and ends
releaseDoubleIndirect(st, fbm, inode, env) ==
  IF inode.doubleIndirectBlock = 0 THEN fbm
  ELSE LET doubleIndirectData == IdxOf(st.disk, inode.doubleIndirectBlock)
           i == firstNonZero(doubleIndirectData)
           indirectData == IdxOf(st.disk, doubleIndirectData[i + 1])
           fbm1 == IF i >= NumIndex THEN fbm
                   ELSE block_store_release(
                          IF indirectData[1] # 0
                          THEN block_store_release(fbm, indirectData[1]) ELSE fbm,
                          env.oob)
       IN block_store_release(fbm1, inode.doubleIndirectBlock)

removeWild(st, inode) ==
  \/ inode.indirectBlock # 0 /\ ~CanRaw(st.disk, inode.indirectBlock)
  \/ /\ inode.doubleIndirectBlock # 0
     /\ \/ ~CanRaw(st.disk, inode.doubleIndirectBlock)
        \/ LET dd == IdxOf(st.disk, inode.doubleIndirectBlock)
               i == firstNonZero(dd)
           IN i < NumIndex /\ ~CanRaw(st.disk, dd[i + 1])

fs_remove(st, path, env) ==
  IF path = <<>> THEN Fail(st)
  ELSE
  LET t == traverseFilePath(st, path)
      fileLocation == indexOfNameInDirectoryEntries(t.dir, t.name)
      entry == t.dir[fileLocation + 1]
      copyOfInodeToUpdate == entry.inodeNumber
      temp == getInodeFromTable(st, copyOfInodeToUpdate)
      parentBlock == t.inode.directBlocks[1]
      \* the entry keeps its type tag: only the inode number and the name are cleared
      parent == [t.dir EXCEPT ![fileLocation + 1] = [entry EXCEPT !.inodeNumber = 0,
                                                                  !.name = <<>>]]
      checkingDirectory == DirOf(st.disk, temp.directBlocks[1])
      fbmDir == block_store_release(st.fbm, temp.directBlocks[1])
      diskDir == block_store_write(st.disk, temp.directBlocks[1], Dir(ZeroDir))
      fbmReg == releaseDoubleIndirect(st,
                  releaseIndirect(st, releaseDirect(st.fbm, temp), temp), temp, env)
  IN IF t.wild THEN Wild(st)
     ELSE IF t.ret < 0 \/ fileLocation < 0 THEN Fail(st)
     ELSE IF entry.type = FS_DIRECTORY
     THEN IF IsUniform(st.disk, temp.directBlocks[1]) THEN Fail(st)
          ELSE IF ~CanDir(st.disk, temp.directBlocks[1]) \/ IsReserved(parentBlock)
          THEN Wild(st)
          ELSE IF \E i \in 1..NumEntries : checkingDirectory[i].inodeNumber # 0 THEN Fail(st)
          ELSE [st |-> [st EXCEPT
                          !.fbm = fbmDir,
                          !.disk = block_store_write(diskDir, parentBlock, Dir(parent)),
                          !.itab = writeInodeIntoTable(st.itab, copyOfInodeToUpdate, ZeroInode),
                          !.imap = st.imap \ {copyOfInodeToUpdate}],
                ret |-> 0, wild |-> FALSE]
     ELSE IF removeWild(st, temp) \/ IsReserved(parentBlock) THEN Wild(st)
     ELSE [st |-> [st EXCEPT
                     !.fbm = fbmReg,
                     !.disk = block_store_write(st.disk, parentBlock, Dir(parent)),
                     !.itab = writeInodeIntoTable(st.itab, copyOfInodeToUpdate, ZeroInode),
                     !.imap = st.imap \ {copyOfInodeToUpdate}],
           ret |-> 0, wild |-> FALSE]

(* ------------------------------------------------------------------ *)
(* The state machine: one mounted filesystem and its caller            *)
(* ------------------------------------------------------------------ *)
VARIABLES
  fbm,    \* block store: the ids whose bit is set in the free-block map
  disk,   \* block store: content of the pool blocks that are not all zero
  imap,   \* super-block: the inode numbers whose bit is set
  itab,   \* inode table: the inodes that are not all zero
  fds,    \* descriptor table, defined on the descriptors in use
  stale,  \* history: descriptors whose file was removed while they were open
  closed, \* history: descriptors closed and not handed out again by fs_open
  file,   \* the backing file: the image as last flushed by block_store_destroy
  mounted, \* TRUE while the caller holds a handle; while FALSE the image
          \* variables keep what the destroyed handle last saw (history)
  last,   \* history: the last call, its arguments and what it returned
  calls,  \* number of calls made so far
  scen    \* which inputs the caller draws from: "small", "big", "tree", "full",
          \* "near", "crowd" or "hole"

vars == <<fbm, disk, imap, itab, fds, file, mounted, stale, closed, last, calls, scen>>

St == [fbm |-> fbm, disk |-> disk, imap |-> imap, itab |-> itab, fds |-> fds]

\* bounds of the exploration
MaxCalls == 5
MaxCallsBig == 2
MaxCallsTree == 3
MaxCallsFull == 3
MaxCallsNear == 2
MaxCallsCrowd == 2
MaxCallsHole == 3
\* the length of the two writes that leave a file larger than its one block
HoleBytes == 300
\* the number of data blocks of one file that, with its 256 index blocks, block
\* 0, the inode table and the root directory, takes every block of the pool
NearFull == BLOCK_STORE_AVAIL_BLOCKS - (InodeBlocks + 2) - NumIndex
\* the numbers of free blocks the nearly full images start with
NearFrees == {0, 3, 6, 8}
BigBlocks == 264
MidBlocks == 222

PathA == <<"/", "a">>
PathB == <<"/", "b">>
PathD == <<"/", "d">>
PathSlash == <<"/", "/">>
PathRoot == <<"/">>
PathDX == <<"/", "d", "/", "x">>
PathSlashA == <<"/", "/", "a">>
PathRelative == <<"a">>
\* a leaf name of 63 bytes and one of 64 bytes
PathMax == <<"/">> \o [i \in 1..NameMax |-> "n"]
PathLong == <<"/">> \o [i \in 1..(NameMax + 1) |-> "n"]

\* the 255 paths that use up the inode table: directories /p (7) and /p/q (49),
\* then regular files /p/q/r, directory by directory, p, q, r in "a".."g"
Letters == <<"a", "b", "c", "d", "e", "f", "g">>
CrowdDirs == NumEntries + NumEntries * NumEntries
CrowdPath(i) ==
  IF i <= NumEntries THEN <<"/", Letters[i]>>
  ELSE IF i <= CrowdDirs
  THEN <<"/", Letters[((i - NumEntries - 1) \div NumEntries) + 1],
         "/", Letters[((i - NumEntries - 1) % NumEntries) + 1]>>
  ELSE LET j == i - CrowdDirs - 1
           d == j \div NumEntries
       IN <<"/", Letters[(d \div NumEntries) + 1], "/", Letters[(d % NumEntries) + 1],
            "/", Letters[(j % NumEntries) + 1]>>
CrowdType(i) == IF i <= CrowdDirs THEN FS_DIRECTORY ELSE FS_REGULAR

\* paths of the crowded image: PathFullRoot and PathFullDir name a new entry of a
\* directory with 7 entries, PathFreeDir one of an empty directory, PathTaken an
\* existing file, PathUnderFile and PathNoParent have no directory to go into
PathFullRoot == <<"/", "h">>
PathFullDir == <<"/", "a", "/", "a", "/", "h">>
PathFreeDir == <<"/", "g", "/", "g", "/", "h">>
PathTaken == <<"/", "a", "/", "a", "/", "a">>
PathUnderFile == <<"/", "a", "/", "a", "/", "a", "/", "x">>
PathNoParent == <<"/", "h", "/", "x">>

Blocks(n, v) == RConst(n * BLOCK_SIZE_BYTES, v)
\* 2^31 as a size_t
TwoTo31 == <<0, HalfLimb, 0, 0>>

Paths ==
  CASE scen = "big" -> {PathA, PathD}
    [] scen = "tree" -> {PathD, PathDX, PathSlashA, PathRelative, PathMax, PathLong, <<>>}
    [] scen = "full" -> {PathA}
    [] scen = "near" -> {PathB, PathD}
    [] scen = "crowd" -> {PathFullRoot, PathFullDir, PathFreeDir, PathTaken, PathUnderFile,
                          PathNoParent}
    [] OTHER -> {PathA, PathB, PathSlash}
DirPaths == Paths \cup {PathRoot}
Types == {FS_REGULAR, FS_DIRECTORY}
Fds ==
  CASE scen = "full" -> {0, NumFds - 2, NumFds - 1}
    [] scen = "tree" -> {0 - 1, 0, NumFds}
    [] scen = "crowd" -> {0}
    [] OTHER -> {0, 1}
Payloads ==
  CASE scen = "big" -> {RCat(Blocks(BigBlocks - 1, 1), Blocks(1, 3))}
    [] scen = "near" -> {Blocks(NumDirect + 2, 1)}
    [] scen = "hole" -> {RConst(100, 3)}
    [] OTHER -> {RConst(100, 1)}
Counts ==
  CASE scen = "big" -> {SzOfNat(BLOCK_SIZE_BYTES)}
    [] scen = "small" -> {SzOfNat(0), SzOfNat(10), TwoTo31}
    [] OTHER -> {SzOfNat(10)}
\* "NONE" stands for a seek_t value that is none of the three
Seeks ==
  CASE scen = "small" ->
         {<<OffOfInt(0), "SET">>, <<OffOfInt(0 - 1), "END">>, <<Off64Max, "CUR">>}
    [] scen = "tree" -> {<<OffOfInt(0), "SET">>, <<OffOfInt(0), "NONE">>}
    [] scen = "hole" -> {<<OffOfInt(0), "SET">>, <<OffOfInt(0), "END">>}
    [] scen = "big" ->
         {<<OffOfInt(0), "SET">>, <<OffOfInt(LastIndirect * BLOCK_SIZE_BYTES), "SET">>}
    [] OTHER -> {<<OffOfInt(0), "SET">>}
\* undefined behaviour: what a signed overflow of off_t yields
Overflows == IF scen = "small" THEN {"wrap", "assume"} ELSE {"wrap"}
\* undefined behaviour: the byte past the caller's buffer, the uint16 past the array
OverreadBytes == IF scen = "small" THEN {0, 7} ELSE {7}
OobWords == IF scen \in {"small", "big"} THEN {0, 65535} ELSE {0}
Env0 == [g |-> 0, oob |-> 65535]

CallsLeft ==
  calls < (CASE scen = "big" -> MaxCallsBig
             [] scen = "tree" -> MaxCallsTree
             [] scen = "full" -> MaxCallsFull
             [] scen = "near" -> MaxCallsNear
             [] scen = "crowd" -> MaxCallsCrowd
             [] scen = "hole" -> MaxCallsHole
             [] OTHER -> MaxCalls)

\* a call on the handle needs the handle
MayCall == mounted /\ CallsLeft

\* the call's effect on the image and the descriptor table
Becomes(r, op, arg) ==
  /\ ~r.wild
  /\ fbm' = r.st.fbm
  /\ disk' = r.st.disk
  /\ imap' = r.st.imap
  /\ itab' = r.st.itab
  /\ fds' = r.st.fds
  /\ last' = [op |-> op, arg |-> arg, ret |-> r.ret,
              buf |-> IF op \in {"read", "get_dir"} THEN r.buf ELSE <<>>]
  /\ closed' = IF op = "close" /\ r.ret = 0 THEN closed \cup {arg[1]}
               ELSE IF op = "open" /\ r.ret >= 0 THEN closed \ {r.ret}
               ELSE closed
  /\ calls' = calls + 1
  /\ scen' = scen
  /\ file' = file
  /\ mounted' = mounted

\* the images a run starts from: a fresh format, or a format followed by
\* create("/a"); create("/b"); open("/a"); open("/b"); write(0, n blocks of byte v)
Filled(n, v) ==
  Once({fs_write(s4, 0, Blocks(n, v), Env0).st :
          s4 \in {Once({fs_open(s3, PathB).st :
            s3 \in {Once({fs_open(s2, PathA).st :
              s2 \in {Once({fs_create(s1, PathB, FS_REGULAR).st :
                s1 \in {fs_create(fs_format, PathA, FS_REGULAR).st}})}})}})}})

\* Filled(n, 0) in closed form, for n > 262: blocks are handed out lowest first,
\* so the six direct blocks are 34..39, the single-indirect index block is 40
\* with data blocks 41..296, the outer index block is 297, and inner index block
\* k is 298 + 257 * k, followed by its data blocks; data blocks are all zero
InnerCount(n) == (n - (LastIndirect + 1) + NumIndex - 1) \div NumIndex
InnerId(k) == 298 + (NumIndex + 1) * k
FilledZero(n) ==
  LET root == fs_format
      dirBlock == getInodeFromTable(root, 0).directBlocks[1]
      inodeA == [fileSize |-> n * BLOCK_SIZE_BYTES, fileMode |-> RegMode,
                 directBlocks |-> [i \in 1..NumDirect |-> 33 + i],
                 indirectBlock |-> 40, doubleIndirectBlock |-> 297]
      inodeB == [ZeroInode EXCEPT !.fileMode = RegMode]
      entries == [i \in 1..NumEntries |->
                    CASE i = 1 -> [name |-> <<"a">>, inodeNumber |-> 1, type |-> FS_REGULAR]
                      [] i = 2 -> [name |-> <<"b">>, inodeNumber |-> 2, type |-> FS_REGULAR]
                      [] OTHER -> ZeroEntry]
      single == [i \in 1..NumIndex |-> 40 + i]
      outer == [k \in 1..NumIndex |-> IF k <= InnerCount(n) THEN InnerId(k - 1) ELSE 0]
      inner(k) == [i \in 1..NumIndex |->
                     IF LastIndirect + 1 + NumIndex * k + (i - 1) < n THEN InnerId(k) + i ELSE 0]
      indexBlocks == {40, 297} \cup {InnerId(k) : k \in 0..(InnerCount(n) - 1)}
  IN [fbm |-> (0..(33 + n + 2 + InnerCount(n))) \cup FbmBlocks,
      disk |-> Explicit([b \in {dirBlock} \cup indexBlocks |->
                 CASE b = dirBlock -> Dir(Explicit(entries))
                   [] b = 40 -> Idx(Explicit(single))
                   [] b = 297 -> Idx(Explicit(outer))
                   [] OTHER -> Idx(Explicit(inner((b - 298) \div (NumIndex + 1))))]),
      imap |-> {0, 1, 2},
      itab |-> Explicit([x \in {0, 1, 2} |->
                 CASE x = 0 -> getInodeFromTable(root, 0) [] x = 1 -> inodeA [] OTHER -> inodeB]),
      fds |-> Explicit([x \in {0, 1} |->
                 IF x = 0 THEN [inodeNumber |-> 1, filePosition |-> n * BLOCK_SIZE_BYTES]
                 ELSE [inodeNumber |-> 2, filePosition |-> 0]])]

InitWith(image, s) ==
  /\ fbm = image.fbm
  /\ disk = image.disk
  /\ imap = image.imap
  /\ itab = image.itab
  /\ fds = image.fds
  /\ file = block_store_destroy(fs_format)
  /\ mounted = TRUE
  /\ stale = {}
  /\ closed = {}
  /\ last = [op |-> "format", arg |-> <<>>, ret |-> 0, buf |-> <<>>]
  /\ calls = 0
  /\ scen = s

Init == InitWith(fs_format, "small")

InitBig == \E n \in {BigBlocks, MidBlocks} : InitWith(Filled(n, 2), "big")

InitTree == InitWith(fs_format, "tree")

\* /a fills the pool but for f blocks and is open at its end; /b is empty and open
InitNear == \E f \in NearFrees : InitWith(FilledZero(NearFull - f), "near")

\* fs_create(CrowdPath(i), CrowdType(i)) for i = lo..hi, one after the other
RECURSIVE Crowd(_, _, _)
Crowd(st, lo, hi) ==
  IF lo > hi THEN st
  ELSE IF lo = hi THEN fs_create(st, CrowdPath(lo), CrowdType(lo)).st
  ELSE Once({Crowd(m, (lo + hi) \div 2 + 1, hi) : m \in {Crowd(st, lo, (lo + hi) \div 2)}})

\* all 256 inodes in use: the root, 56 directories and 199 regular files
InitCrowd == InitWith(Crowd(fs_format, 1, NumInodes - 1), "crowd")

\* k successful calls of fs_open(path), one after the other
RECURSIVE OpenTimes(_, _, _)
OpenTimes(st, path, k) ==
  IF k <= 0 THEN st
  ELSE IF k = 1 THEN fs_open(st, path).st
  ELSE Once({OpenTimes(m, path, k - k \div 2) : m \in {OpenTimes(st, path, k \div 2)}})

\* format; create("/a"); then all descriptors but the last one opened on /a
InitFull ==
  InitWith(OpenTimes(fs_create(fs_format, PathA, FS_REGULAR).st, PathA, NumFds - 1), "full")

\* format; create("/a"); open("/a"); write of HoleBytes bytes; seek to 0; the
\* same write again: /a has one block attached and is open at HoleBytes
Holed ==
  Once({fs_write(s4, 0, RConst(HoleBytes, 1), Env0).st :
          s4 \in {Once({fs_seek(s3, 0, OffOfInt(0), "SET", [ovf |-> "wrap"]).st :
            s3 \in {Once({fs_write(s2, 0, RConst(HoleBytes, 1), Env0).st :
              s2 \in {Once({fs_open(s1, PathA).st :
                s1 \in {fs_create(fs_format, PathA, FS_REGULAR).st}})}})}})}})

InitHole == InitWith(Holed, "hole")

Create ==
  \E path \in Paths, type \in Types :
    MayCall /\
    \E r \in {fs_create(St, path, type)} :
          /\ Becomes(r, "create", <<path, type>>)
      /\ stale' = stale

Open ==
  \E path \in Paths :
    MayCall /\
    \E r \in {fs_open(St, path)} :
          /\ Becomes(r, "open", <<path>>)
      /\ stale' = stale

Close ==
  \E fd \in Fds :
    MayCall /\
    \E r \in {fs_close(St, fd)} :
          /\ Becomes(r, "close", <<fd>>)
      /\ stale' = stale \ {fd}

Seek ==
  \E fd \in Fds, s \in Seeks, ovf \in Overflows :
    MayCall /\
    \E r \in {fs_seek(St, fd, s[1], s[2], [ovf |-> ovf])} :
          /\ Becomes(r, "seek", <<fd, s[1], s[2]>>)
      /\ stale' = stale

Read ==
  \E fd \in Fds, nbyte \in Counts :
    MayCall /\
    \E r \in {fs_read(St, fd, nbyte)} :
          /\ Becomes(r, "read", <<fd, nbyte>>)
      /\ stale' = stale

Write ==
  \E fd \in Fds, src \in Payloads, g \in OverreadBytes :
    MayCall /\
    \E r \in {fs_write(St, fd, src, [g |-> g, oob |-> 0])} :
          /\ Becomes(r, "write", <<fd, src>>)
      /\ stale' = stale

\* the inode number fs_remove(path) acts on, or NoBlock
Target(st, path) ==
  LET t == traverseFilePath(st, path)
      at == indexOfNameInDirectoryEntries(t.dir, t.name)
  IN IF path = <<>> \/ t.ret < 0 \/ at < 0 THEN NoBlock ELSE t.dir[at + 1].inodeNumber

GetDir ==
  \E path \in DirPaths :
    MayCall /\
    \E r \in {fs_get_dir(St, path)} :
          /\ Becomes(r, "get_dir", <<path>>)
      /\ stale' = stale

Remove ==
  \E path \in Paths, oob \in OobWords :
    MayCall /\
    \E r \in {fs_remove(St, path, [g |-> 0, oob |-> oob])} :
          /\ Becomes(r, "remove", <<path>>)
      /\ stale' = IF r.ret = 0
                  THEN stale \cup {fd \in DOMAIN fds : fds[fd].inodeNumber = Target(St, path)}
                  ELSE stale

\* fs_unmount: the store is flushed and the handle, with its descriptors, freed
Unmount ==
  MayCall /\
  \E r \in {fs_unmount(St, file)} :
    /\ file' = r.file
    /\ mounted' = FALSE
    /\ fds' = <<>>
    /\ last' = [op |-> "unmount", arg |-> <<>>, ret |-> r.ret, buf |-> <<>>]
    /\ calls' = calls + 1
    /\ UNCHANGED <<fbm, disk, imap, itab, stale, closed, scen>>

\* fs_mount of the image just unmounted
Mount ==
  ~mounted /\ CallsLeft /\
  \E r \in {fs_mount(file)} :
    /\ fbm' = r.st.fbm
    /\ disk' = r.st.disk
    /\ imap' = r.st.imap
    /\ itab' = r.st.itab
    /\ fds' = r.st.fds
    /\ mounted' = TRUE
    /\ stale' = {}
    /\ closed' = {}
    /\ last' = [op |-> "mount", arg |-> <<>>, ret |-> r.ret, buf |-> <<>>]
    /\ calls' = calls + 1
    /\ UNCHANGED <<file, scen>>

Next == Create \/ Open \/ Close \/ Seek \/ Read \/ Write \/ GetDir \/ Remove \/ Unmount \/ Mount

Spec == Init /\ [][Next]_vars

SpecBig == InitBig /\ [][Next]_vars

SpecTree == InitTree /\ [][Next]_vars

SpecFull == InitFull /\ [][Next]_vars

SpecNear == InitNear /\ [][Next]_vars

SpecHole == InitHole /\ [][Next]_vars

\* the images in which a resource has run out: the pool, the inode table, a directory
SpecExhausted == (InitCrowd \/ InitNear) /\ [][Next]_vars

(* ------------------------------------------------------------------ *)
(* Properties                                                          *)
(* ------------------------------------------------------------------ *)
NonZero(ptrs, n) == {ptrs[i] : i \in 1..n} \ {0}

\* the blocks an inode reaches in image st: data or directory blocks and index blocks
BlocksOf(st, inode) ==
  LET direct == NonZero(inode.directBlocks, NumDirect)
      single == IF inode.indirectBlock = 0 THEN {}
                ELSE {inode.indirectBlock}
                       \cup NonZero(IdxOf(st.disk, inode.indirectBlock), NumIndex)
      inners == IF inode.doubleIndirectBlock = 0 THEN {}
                ELSE NonZero(IdxOf(st.disk, inode.doubleIndirectBlock), NumIndex)
      double == IF inode.doubleIndirectBlock = 0 THEN {}
                ELSE {inode.doubleIndirectBlock} \cup inners
                       \cup UNION {NonZero(IdxOf(st.disk, b), NumIndex) : b \in inners}
  IN direct \cup single \cup double

LiveBlocks(st) == UNION {BlocksOf(st, getInodeFromTable(st, n)) : n \in st.imap}

ReservedBlocks == (0 .. InodeBlocks) \cup FbmBlocks

\* the inode numbers of the in-use entries of directory inode n (none for a file)
EntriesOf(st, n) ==
  LET inode == getInodeFromTable(st, n)
      dir == DirOf(st.disk, inode.directBlocks[1])
  IN IF inode.fileMode >= DirModeMin
     THEN {dir[i].inodeNumber : i \in 1..NumEntries} \ {0}
     ELSE {}

RECURSIVE Closure(_, _)
Closure(st, S) ==
  LET T == S \cup UNION {EntriesOf(st, n) : n \in S}
  IN IF T = S THEN S ELSE Closure(st, T)

\* the root and every inode named by an in-use entry reachable from it
InUseInodes(st) == Closure(st, {0})

\* create(P); fd=open(P); write(fd,B); close(fd); fd=open(P); seek(fd,0,SET); read(fd,|B|)
RoundTrip(st, P, B, g) ==
  Once({ Once({ Once({ Once({ Once({ Once({ Once({
    [can |-> c.ret = 0 /\ o.ret >= 0
               /\ ~(c.wild \/ o.wild \/ w.wild \/ x.wild \/ o2.wild \/ k.wild \/ r.wild),
     wrote |-> w.ret, got |-> r.ret, buf |-> r.buf]
    : r \in {fs_read(k.st, o2.ret, SzOfNat(RLen(B)))} })
    : k \in {fs_seek(o2.st, o2.ret, OffOfInt(0), "SET", [ovf |-> "wrap"])} })
    : o2 \in {fs_open(x.st, P)} })
    : x \in {fs_close(w.st, o.ret)} })
    : w \in {fs_write(o.st, o.ret, B, [g |-> g, oob |-> 0])} })
    : o \in {fs_open(c.st, P)} })
    : c \in {fs_create(st, P, FS_REGULAR)} })

\* C1: in every reachable state, for every path that can be created and every
\* payload, create; open; write; close; open; seek to 0; read makes write and
\* read both return the payload's length and the buffer read equal the payload.
C1_RoundTrip ==
  \A P \in Paths, B \in Payloads, g \in OverreadBytes :
    \A t \in {RoundTrip(St, P, B, g)} :
      t.can => t.wrote = RLen(B) /\ t.got = RLen(B) /\ t.buf = B

\* C2: no directory of an in-use inode holds two in-use entries with the same name.
C2_NamesUnique ==
  \A n \in imap :
    getInodeFromTable(St, n).fileMode >= DirModeMin =>
      \A dir \in {DirOf(disk, getInodeFromTable(St, n).directBlocks[1])} :
        \A i, j \in 1..NumEntries :
          (i # j /\ dir[i].inodeNumber # 0 /\ dir[j].inodeNumber # 0)
            => dir[i].name # dir[j].name

\* C3 (I3): every non-zero pointer of an in-use inode, and of every index block
\* reachable from it, refers to a block marked in use in the free-block map.
C3_PointersInUse ==
  \A n \in imap : BlocksOf(St, getInodeFromTable(St, n)) \subseteq fbm

\* C4 (I1): the super-block, the inode table and the free-map blocks stay marked
\* in use and no pointer of an in-use inode or of its index blocks refers to them.
C4_ReservedUntouched ==
  /\ ReservedBlocks \subseteq fbm
  /\ \A n \in imap : BlocksOf(St, getInodeFromTable(St, n)) \cap ReservedBlocks = {}

\* C5: a successful fs_remove of a regular file frees every block that was
\* reachable from its inode and releases no other block.
C5_RemoveFreesAll ==
  [][(last'.op = "remove" /\ last'.ret = 0) =>
       \A n \in {Target(St, last'.arg[1])} :
         (n \in imap /\ getInodeFromTable(St, n).fileMode = RegMode) =>
           \A reach \in {BlocksOf(St, getInodeFromTable(St, n))} :
             /\ reach \cap fbm' = {}
             /\ (fbm \ fbm') \subseteq reach]_vars

\* C6: the number of blocks marked in use is 1 + 32 + 16 + the number of live
\* data, directory and index blocks.
C6_BlockConservation ==
  Cardinality(fbm) = 1 + InodeBlocks + Cardinality(FbmBlocks) + Cardinality(LiveBlocks(St))

\* C7 (I2): bit N of the inode bitmap is set iff N is the root or the inode
\* number of an in-use directory entry reachable from the root.
C7_InodeBitmapExact == imap = InUseInodes(St)

\* C8 (I7): every in-use descriptor refers to an in-use inode of a regular file
\* and its position lies in [0, fileSize].
C8_DescriptorsValid ==
  \A fd \in DOMAIN fds :
    /\ fds[fd].inodeNumber \in imap
    /\ getInodeFromTable(St, fds[fd].inodeNumber).fileMode = RegMode
    /\ 0 <= fds[fd].filePosition
    /\ fds[fd].filePosition <= getInodeFromTable(St, fds[fd].inodeNumber).fileSize

\* C9: a read, write or seek on a descriptor whose file was removed while it was
\* open changes no inode, no block and no allocation, and returns no bytes.
C9_StaleDescriptorSafe ==
  [][(last'.op \in {"read", "write", "seek"} /\ last'.arg[1] \in stale) =>
       /\ fbm' = fbm
       /\ itab' = itab
       /\ disk' = disk
       /\ last'.buf = <<>>]_vars

\* C10: fs_read on a descriptor that satisfies I7 returns r with
\* 0 <= r <= min(nbyte, fileSize - position), for the values before the call.
C10_ReadBounded ==
  [][(last'.op = "read" /\ last'.arg[1] \in DOMAIN fds) =>
       \A fd \in {last'.arg[1]} :
         \A size \in {getInodeFromTable(St, fds[fd].inodeNumber).fileSize} :
           (fds[fd].inodeNumber \in imap /\ 0 <= fds[fd].filePosition
              /\ fds[fd].filePosition <= size) =>
             /\ 0 <= last'.ret
             /\ last'.ret <= size - fds[fd].filePosition
             /\ SzMinNat(last'.ret, last'.arg[2]) = last'.ret]_vars

\* clamp(x, 0, size) for integers
Clamp(x, size) == IF x <= 0 THEN 0 ELSE IF x > size THEN size ELSE x

\* clamp(base + offset, 0, size) over the integers, for an off_t offset (limbs),
\* 0 <= base and 0 <= size
ClampSum(base, offset, size) ==
  IF OffIsNeg(offset)
  THEN IF offset[3] = Limb - 1 /\ offset[4] = Limb - 1 /\ offset[2] >= HalfLimb
       THEN Clamp(base + SzToInt(offset), size)
       ELSE 0
  ELSE IF SzIsSmall(offset) THEN Clamp(base + SzSmall(offset), size)
  ELSE size

\* C11: fs_seek on an in-use descriptor sets the position to, and returns,
\* clamp(base + offset, 0, fileSize), base being 0 (SET), the current position
\* (CUR) or fileSize (END), for every offset an off_t can hold.
C11_SeekClamps ==
  [][(last'.op = "seek" /\ last'.arg[1] \in DOMAIN fds) =>
       \A fd \in {last'.arg[1]} :
         \A size \in {getInodeFromTable(St, fds[fd].inodeNumber).fileSize} :
           \A base \in {CASE last'.arg[3] = "SET" -> 0
                           [] last'.arg[3] = "CUR" -> fds[fd].filePosition
                           [] OTHER -> size} :
             /\ last'.ret = ClampSum(base, last'.arg[2], size)
             /\ fds'[fd].filePosition = ClampSum(base, last'.arg[2], size)]_vars

\* the image and descriptor table after the step
StNext == [fbm |-> fbm', disk |-> disk', imap |-> imap', itab |-> itab', fds |-> fds']

\* the last "/" of a path, the path of its parent directory and its leaf name
LastSlash(path) == CHOOSE i \in 1..Len(path) : path[i] = "/" /\ \A j \in (i + 1)..Len(path) : path[j] # "/"
ParentOf(path) == IF LastSlash(path) = 1 THEN PathRoot ELSE SubSeq(path, 1, LastSlash(path) - 1)
LeafOf(path) == SubSeq(path, LastSlash(path) + 1, Len(path))

\* seq without its k-th element
Without(seq, k) == SubSeq(seq, 1, k - 1) \o SubSeq(seq, k + 1, Len(seq))

\* C12: after a successful fs_create(P, type) the listing of P's parent is the
\* listing before plus one entry with P's leaf name and the requested type; a new
\* directory lists as empty and a new regular file has size 0.  (A listing the
\* model cannot determine is not counted against the claim.)
C12_CreateListed ==
  [][(last'.op = "create" /\ last'.ret = 0) =>
       \A P \in {last'.arg[1]}, type \in {last'.arg[2]} :
         \A before \in {fs_get_dir(St, ParentOf(P))}, after \in {fs_get_dir(StNext, ParentOf(P))} :
           /\ (before.wild \/ after.wild) \/
                /\ before.ret = 0 /\ after.ret = 0
                /\ \E k \in 1..Len(after.buf) :
                     /\ after.buf[k].name = LeafOf(P)
                     /\ after.buf[k].type = type
                     /\ Without(after.buf, k) = before.buf
                     /\ type = FS_REGULAR =>
                          getInodeFromTable(StNext, after.buf[k].inodeNumber).fileSize = 0
           /\ type = FS_DIRECTORY =>
                \A own \in {fs_get_dir(StNext, P)} :
                  own.wild \/ (own.ret = 0 /\ own.buf = <<>>)]_vars

\* the names and types listed by every in-use directory inode of image st
Listings(st) ==
  [n \in {m \in st.imap : getInodeFromTable(st, m).fileMode >= DirModeMin} |->
     LET dir == DirOf(st.disk, getInodeFromTable(st, n).directBlocks[1])
     IN {<<dir[i].name, dir[i].type>> : i \in {j \in 1..NumEntries : dir[j].inodeNumber # 0}}]

\* create(P, type); remove(P); create(P, type) from image st
CreateRemoveCreate(st, P, type) ==
  Once({ Once({ Once({
    [can |-> c.ret = 0 /\ ~c.wild, known |-> ~(r.wild \/ c2.wild),
     removed |-> r.ret, again |-> c2.ret, mid |-> r.st]
    : c2 \in {fs_create(r.st, P, type)} })
    : r \in {fs_remove(c.st, P, Env0)} })
    : c \in {fs_create(st, P, type)} })

\* C13: in every reachable state, for every path P that create accepts,
\* create(P); remove(P); create(P) succeeds at each step, and after
\* create(P); remove(P) the listings, the inode bitmap and the free-block map
\* are those before the first create.
C13_CreateRemoveCreate ==
  \A P \in Paths, type \in Types :
    \A t \in {CreateRemoveCreate(St, P, type)} :
      (t.can /\ t.known) =>
        /\ t.removed = 0
        /\ t.again = 0
        /\ Listings(t.mid) = Listings(St)
        /\ t.mid.imap = imap
        /\ t.mid.fbm = fbm

\* directory inode n of image st has at least one in-use entry
HasEntries(st, n) ==
  \/ EntriesOf(st, n) # {}
  \/ IsUniform(st.disk, getInodeFromTable(st, n).directBlocks[1])

\* C14: fs_remove of a path that resolves to an in-use directory inode fails and
\* changes nothing when the directory has an in-use entry; when it has none the
\* call succeeds, releases the directory's block, zeroes the inode, clears its
\* bitmap bit and leaves no entry of that name listed in the parent.
C14_RemoveDirectory ==
  [][(last'.op = "remove") =>
       \A P \in {last'.arg[1]} :
         \A n \in {Target(St, P)} :
           (n \in imap /\ getInodeFromTable(St, n).fileMode >= DirModeMin) =>
             IF HasEntries(St, n)
             THEN /\ last'.ret < 0
                  /\ StNext = St
             ELSE /\ last'.ret = 0
                  /\ getInodeFromTable(St, n).directBlocks[1] \notin fbm'
                  /\ getInodeFromTable(StNext, n) = ZeroInode
                  /\ n \notin imap'
                  /\ \A after \in {fs_get_dir(StNext, ParentOf(P))} :
                       after.wild \/ \A k \in 1..Len(after.buf) :
                                       after.buf[k].name # LeafOf(P)]_vars

\* path names an existing regular file of image st: its leaf matches an in-use
\* entry of type regular whose inode is an in-use regular-file inode
NamesRegular(st, path) ==
  /\ path # <<>>
  /\ \A t \in {traverseFilePath(st, path)} :
       /\ t.ret = 0
       /\ \A at \in {indexOfNameInDirectoryEntries(t.dir, t.name)} :
            /\ at >= 0
            /\ t.dir[at + 1].inodeNumber # 0
            /\ t.dir[at + 1].type = FS_REGULAR
            /\ t.dir[at + 1].inodeNumber \in st.imap
            /\ getInodeFromTable(st, t.dir[at + 1].inodeNumber).fileMode = RegMode

\* the lowest descriptor index that is not in use, or NoBlock when all are
LowestFree == IF DOMAIN fds = 0..(NumFds - 1) THEN NoBlock
              ELSE CHOOSE d \in 0..(NumFds - 1) : d \notin DOMAIN fds /\ \A e \in 0..(d - 1) : e \in DOMAIN fds

\* C15: fs_open of a path naming an existing regular file returns the lowest
\* descriptor of 0..255 that is not in use, marks it in use with the file's inode
\* number and position 0 and leaves the other descriptors and the image alone;
\* when all 256 descriptors are in use it fails and changes nothing.
C15_OpenLowestFree ==
  [][(last'.op = "open" /\ NamesRegular(St, last'.arg[1])) =>
       IF LowestFree = NoBlock
       THEN last'.ret < 0 /\ StNext = St
       ELSE /\ last'.ret = LowestFree
            /\ DOMAIN fds' = DOMAIN fds \cup {LowestFree}
            /\ fds'[LowestFree] = [inodeNumber |-> Target(St, last'.arg[1]), filePosition |-> 0]
            /\ \A d \in DOMAIN fds : fds'[d] = fds[d]
            /\ <<fbm', disk', imap', itab'>> = <<fbm, disk, imap, itab>>]_vars

\* C15 witness: fs_open of an existing regular file has just failed because all
\* 256 descriptors are in use.
C15_Witness ==
  /\ last.op = "open"
  /\ last.ret < 0
  /\ DOMAIN fds = 0..(NumFds - 1)
  /\ NamesRegular(St, last.arg[1])

\* C16: fs_close of an in-use descriptor returns 0 and frees the slot; on a
\* descriptor that was closed and not handed out again by fs_open, every
\* fs_close, fs_read, fs_write and fs_seek fails.
C16_ClosedDescriptorFails ==
  [][/\ (last'.op = "close" /\ last'.arg[1] \in DOMAIN fds) =>
          (last'.ret = 0 /\ last'.arg[1] \notin DOMAIN fds')
     /\ (last'.op \in {"close", "read", "write", "seek"} /\ last'.arg[1] \in closed) =>
          last'.ret < 0]_vars

\* path resolution as the claim states it, from character i on: TRUE when a
\* segment is longer than 63 bytes, or an intermediate segment matches no in-use
\* entry of the current directory (inode cur) or names a regular file
RECURSIVE BadFrom(_, _, _, _, _)
BadFrom(st, path, i, name, cur) ==
  IF i > Len(path) THEN Len(name) > NameMax
  ELSE IF path[i] # "/" THEN BadFrom(st, path, i + 1, Append(name, path[i]), cur)
  ELSE LET dir == DirOf(st.disk, getInodeFromTable(st, cur).directBlocks[1])
           hits == {j \in 1..NumEntries : dir[j].inodeNumber # 0 /\ dir[j].name = name}
           j == CHOOSE h \in hits : \A g \in hits : h <= g
       IN \/ Len(name) > NameMax
          \/ hits = {}
          \/ dir[j].type = FS_REGULAR
          \/ getInodeFromTable(st, dir[j].inodeNumber).fileMode < DirModeMin
          \/ BadFrom(st, path, i + 1, <<>>, dir[j].inodeNumber)

BadPath(st, path) ==
  \/ path = <<>>
  \/ path[1] # "/"
  \/ Len(path) > 1 /\ BadFrom(st, path, 2, <<>>, 0)

\* C17: fs_create, fs_open, fs_remove and fs_get_dir fail and change nothing when
\* the path is empty, does not start with "/", has a segment longer than 63 bytes
\* or an intermediate segment that is no in-use entry of its directory or names a
\* regular file; a name of exactly 63 bytes is accepted by fs_create.
C17_PathFailures ==
  [][/\ (last'.op \in {"create", "open", "remove", "get_dir"} /\ BadPath(St, last'.arg[1])) =>
          (last'.ret < 0 /\ StNext = St)
     /\ (last'.op = "create" /\ last'.arg[1] = PathMax /\ EntriesOf(St, 0) = {}
            /\ 0 \in imap /\ imap # 0..(NumInodes - 1)) => last'.ret = 0]_vars

\* C18: fs_create and fs_open fail for every path whose final segment is empty
\* (a path ending in "/"): no entry is installed, no descriptor is handed out.
C18_EmptyLeafInvalid ==
  [][(last'.op \in {"create", "open"} /\ last'.arg[1] # <<>>
        /\ last'.arg[1][Len(last'.arg[1])] = "/") =>
       (last'.ret < 0 /\ StNext = St)]_vars

\* the walk of path succeeds and its leaf name matches no in-use entry of the
\* directory the walk ends in
LeafNotFound(st, path) ==
  /\ Len(path) > 1
  /\ \A t \in {traverseFilePath(st, path)} :
       /\ t.ret = 0
       /\ ~t.wild
       /\ \A i \in 1..NumEntries : t.dir[i].inodeNumber # 0 => t.dir[i].name # t.name

\* C19: fs_open, fs_remove and fs_get_dir fail and leave the image and the
\* descriptor table unchanged when the final name of the path matches no in-use
\* entry of the resolved parent directory, whatever the name, the empty one included.
C19_NotFound ==
  [][(last'.op \in {"open", "remove", "get_dir"} /\ LeafNotFound(St, last'.arg[1])) =>
       (last'.ret < 0 /\ StNext = St)]_vars

\* C20: inode 0 stays marked in use and stays a directory inode whose
\* directBlocks[0] is a directory block of the pool that is marked in use.
C20_RootPermanent ==
  /\ 0 \in imap
  /\ \A root \in {getInodeFromTable(St, 0)} :
       /\ root.fileMode = DirMode
       /\ root.directBlocks[1] \in fbm \ ReservedBlocks
       /\ CanDir(disk, root.directBlocks[1])

\* the in-use entries of a directory, lowest slot first
InSlotOrder(directory) == SelectSeq(directory, LAMBDA e : e.inodeNumber # 0)

\* the inode number of the directory a listing path names: 0 for "/", else the
\* inode number of the in-use entry the path resolves to (NoBlock when none)
ListedInode(st, path) == IF path = PathRoot THEN 0 ELSE Target(st, path)

\* C21: fs_get_dir on "/" or on a path naming a directory returns exactly the
\* in-use entries of that directory, each with its stored name and type, lowest
\* slot first, and never more than 7 of them.
C21_GetDirInSlotOrder ==
  [][(last'.op = "get_dir") =>
       \A n \in {ListedInode(St, last'.arg[1])} :
         \A inode \in {getInodeFromTable(St, n)} :
           (/\ n \in imap
            /\ n = 0 <=> last'.arg[1] = PathRoot
            /\ inode.fileMode >= DirModeMin
            /\ CanDir(disk, inode.directBlocks[1])) =>
             /\ last'.ret = 0
             /\ Len(last'.buf) <= NumEntries
             /\ last'.buf = InSlotOrder(DirOf(disk, inode.directBlocks[1]))]_vars

\* image st holds the root directory and nothing else
OnlyRoot(st) ==
  /\ \A l \in {fs_get_dir(st, PathRoot)} : ~l.wild /\ l.ret = 0 /\ l.buf = <<>>
  /\ st.imap = {0}
  /\ \A root \in {getInodeFromTable(st, 0)} :
       /\ root.directBlocks[1] \notin ReservedBlocks
       /\ st.fbm = ReservedBlocks \cup {root.directBlocks[1]}
       /\ Kind(st.disk, root.directBlocks[1]) = "zero"
  /\ Cardinality(st.fbm) = 1 + InodeBlocks + 1 + Cardinality(FbmBlocks)
  /\ st.fds = <<>>

\* the run starts right after fs_format and no call has been made since
JustFormatted == last.op = "format" /\ scen \in {"small", "tree"}

\* C22: fs_format returns a mounted filesystem that holds only the root: the
\* listing of "/" is empty, only bit 0 of the inode bitmap is set, the blocks in
\* use are block 0, blocks 1..32, one root directory block and the 16 free-map
\* blocks, and no descriptor is in use; fs_unmount followed by fs_mount of that
\* image yields the same empty filesystem.
C22_FormatRootOnly ==
  [][/\ JustFormatted => OnlyRoot(St)
     /\ (JustFormatted /\ last'.op = "unmount") =>
          \A m \in {fs_mount(file')} : m.ret = 0 /\ m.st = St /\ OnlyRoot(m.st)
     /\ (last'.op = "mount" /\ calls = 1 /\ scen \in {"small", "tree"}) =>
          (last'.ret = 0 /\ StNext = fs_format /\ OnlyRoot(StNext))]_vars

\* C22 witness: format; unmount; mount has been run and the filesystem mounted
\* holds only the root.
C22_Witness ==
  /\ last.op = "mount"
  /\ calls = 2
  /\ scen = "tree"
  /\ mounted
  /\ OnlyRoot(St)

C24_CountAccounting ==
  [][/\ (last'.op = "read" /\ last'.arg[1] \in DOMAIN fds /\ last'.ret >= 0) =>
          /\ fds'[last'.arg[1]].filePosition = fds[last'.arg[1]].filePosition + last'.ret
          /\ itab' = itab
     /\ (last'.op = "write" /\ last'.arg[1] \in DOMAIN fds /\ last'.ret >= 0) =>
          \A fd \in {last'.arg[1]} :
            \A n \in {fds[fd].inodeNumber} :
              /\ fds'[fd].filePosition = fds[fd].filePosition + last'.ret
              /\ fds[fd].filePosition = getInodeFromTable(St, n).fileSize =>
                   getInodeFromTable(StNext, n).fileSize =
                     getInodeFromTable(St, n).fileSize + last'.ret]_vars

\* C24 witness: a write that started at the end of a file holding 100 bytes has
\* returned 100, and position and fileSize are both 200.
C24_Witness ==
  /\ last.op = "write"
  /\ last.ret = 100
  /\ last.arg[1] \in DOMAIN fds
  /\ fds[last.arg[1]].filePosition = 200
  /\ getInodeFromTable(St, fds[last.arg[1]].inodeNumber).fileSize = 200

\* the index blocks an inode reaches in image st
IndexBlocksOf(st, inode) ==
  LET inners == IF inode.doubleIndirectBlock = 0 THEN {}
                ELSE NonZero(IdxOf(st.disk, inode.doubleIndirectBlock), NumIndex)
  IN ({inode.indirectBlock, inode.doubleIndirectBlock} \ {0}) \cup inners

\* C25: a fs_write of whole blocks that starts at a block boundary at end of file
\* and returns less than it was given (the pool ran out) returns 512 times the
\* number of data blocks it has taken from the pool and filled, advances position and fileSize by that
\* count, and every block it took from the pool is reached from the stored inode.
C25_ShortWrite ==
  [][(/\ last'.op = "write"
      /\ last'.arg[1] \in DOMAIN fds
      /\ last'.ret >= 0
      /\ last'.ret < RLen(last'.arg[2])
      /\ RLen(last'.arg[2]) % BLOCK_SIZE_BYTES = 0) =>
       \A fd \in {last'.arg[1]} :
         \A n \in {fds[fd].inodeNumber} :
           \A old \in {getInodeFromTable(St, n)}, new \in {getInodeFromTable(StNext, n)} :
             (fds[fd].filePosition = old.fileSize /\ old.fileSize % BLOCK_SIZE_BYTES = 0) =>
               /\ last'.ret = BLOCK_SIZE_BYTES *
                    Cardinality((fbm' \ fbm) \ IndexBlocksOf(StNext, new))
               /\ fds'[fd].filePosition = fds[fd].filePosition + last'.ret
               /\ new.fileSize = old.fileSize + last'.ret
               /\ (fbm' \ fbm) \subseteq BlocksOf(StNext, new)]_vars

\* C26: a fs_create that returns failure leaves the free-block map, the inode
\* bitmap, the inode table and every block of the pool as they were.
C26_FailedCreateAtomic ==
  [][(last'.op = "create" /\ last'.ret < 0) =>
       <<fbm', disk', imap', itab'>> = <<fbm, disk, imap, itab>>]_vars

\* C26 witness: fs_create of a new name in a directory with a free slot has just
\* failed because all 256 inodes are in use.
C26_Witness ==
  /\ last.op = "create"
  /\ last.ret < 0
  /\ last.arg[1] = PathFreeDir
  /\ imap = 0..(NumInodes - 1)
  /\ \A t \in {traverseFilePath(St, PathFreeDir)} :
       t.ret = 0 /\ checkBlockInDirectory(t.dir, t.name) >= 0

\* C27: fs_close, fs_seek, fs_read and fs_write return a negative value and change
\* neither the descriptor table nor the image when fd is outside 0..255 or is not
\* in use, whatever the other arguments (a byte count of 0 included); fs_seek
\* with a whence that is none of SET, CUR, END returns a negative value and
\* leaves the position unchanged.
C27_InvalidDescriptor ==
  [][/\ (last'.op \in {"close", "seek", "read", "write"}
           /\ (last'.arg[1] \notin 0..(NumFds - 1) \/ last'.arg[1] \notin DOMAIN fds)) =>
          (last'.ret < 0 /\ StNext = St)
     /\ (last'.op = "seek" /\ last'.arg[3] \notin {"SET", "CUR", "END"}) =>
          (last'.ret < 0 /\ fds' = fds)]_vars

\* path resolves, in image st, to an in-use entry whose inode is in use and has
\* the given mode (the entry's type tag is not looked at)
NamesMode(st, path, mode) ==
  /\ Len(path) > 1
  /\ \A t \in {traverseFilePath(st, path)} :
       /\ t.ret = 0
       /\ ~t.wild
       /\ \A at \in {indexOfNameInDirectoryEntries(t.dir, t.name)} :
            /\ at >= 0
            /\ t.dir[at + 1].inodeNumber # 0
            /\ t.dir[at + 1].inodeNumber \in st.imap
            /\ getInodeFromTable(st, t.dir[at + 1].inodeNumber).fileMode = mode

MaxLogical == LastIndirect + NumIndex * NumIndex
\* the block that holds logical block L of a file: directBlocks[L] for 0..5,
\* entry L - 6 of the single-indirect block for 6..261, and above that entry
\* (L - 262) mod 256 of the inner block in entry (L - 262) div 256 of the outer
\* block; 0 where no block is attached
BlockOfLogical(st, inode, L) ==
  IF L < NumDirect THEN inode.directBlocks[L + 1]
  ELSE IF L <= LastIndirect
  THEN (IF inode.indirectBlock = 0 THEN 0
        ELSE IdxOf(st.disk, inode.indirectBlock)[L - NumDirect + 1])
  ELSE IF inode.doubleIndirectBlock = 0 THEN 0
  ELSE LET inner == IdxOf(st.disk, inode.doubleIndirectBlock)[
                      ((L - LastIndirect - 1) \div NumIndex) + 1]
       IN IF inner = 0 THEN 0
          ELSE IdxOf(st.disk, inner)[((L - LastIndirect - 1) % NumIndex) + 1]

\* bytes lo..hi-1 of the file, as they lie in block b that holds logical block L
BytesInBlock(dsk, b, L, lo, hi) ==
  RTake(RDrop(RawOf(dsk, b), lo - L * BLOCK_SIZE_BYTES), hi - lo)

\* the n bytes data, moved at position p of the file with the given inode, lie
\* in image st in the blocks that BlockOfLogical names; where index entries
\* left behind by an earlier file give two logical blocks of the call the same
\* block, the later one's bytes lie there
LiesAt(st, inode, p, n, data) ==
  \A L \in (p \div BLOCK_SIZE_BYTES)..((p + n - 1) \div BLOCK_SIZE_BYTES) :
    \A lo \in {IF p > L * BLOCK_SIZE_BYTES THEN p ELSE L * BLOCK_SIZE_BYTES} :
      \A hi \in {IF p + n < (L + 1) * BLOCK_SIZE_BYTES THEN p + n
                  ELSE (L + 1) * BLOCK_SIZE_BYTES} :
        \A b \in {BlockOfLogical(st, inode, L)} :
          /\ b # 0
          /\ \/ BytesInBlock(st.disk, b, L, lo, hi) = RTake(RDrop(data, lo - p), hi - lo)
             \/ \E L2 \in (L + 1)..((p + n - 1) \div BLOCK_SIZE_BYTES) :
                  BlockOfLogical(st, inode, L2) = b

\* C29: every fs_read and fs_write, wherever it starts and however many blocks
\* it spans, finds logical block L of the file at directBlocks[L] (L in 0..5),
\* at entry L-6 of the single-indirect block (L in 6..261), and at entry
\* (L-262) mod 256 of the inner block in entry (L-262) div 256 of the outer
\* block (L in 262..65797): the bytes a write stored lie there afterwards, and
\* the bytes a read returned are the ones that lie there. Stated for descriptors
\* of files that have not been removed.
C29_LogicalToPhysical ==
  [][last'.op \in {"read", "write"} =>
     \A fd \in {last'.arg[1]} :
       (/\ last'.ret > 0
        /\ fd \in DOMAIN fds
        /\ fd \notin stale
        /\ fds[fd].inodeNumber \in imap
        /\ fds[fd].filePosition >= 0
        /\ (fds[fd].filePosition + last'.ret - 1) \div BLOCK_SIZE_BYTES <= MaxLogical) =>
         IF last'.op = "write"
         THEN LiesAt(StNext, getInodeFromTable(StNext, fds[fd].inodeNumber),
                     fds[fd].filePosition, last'.ret, last'.arg[2])
         ELSE LiesAt(St, getInodeFromTable(St, fds[fd].inodeNumber),
                     fds[fd].filePosition, last'.ret, last'.buf)]_vars

\* C30: when fs_create makes a directory, directBlocks[0] of the new inode is
\* the id of the block the block store handed out for it, whatever id of the
\* pool that is, and the zeroed directory lies in that block.
C30_DirBlockStored ==
  [][(last'.op = "create" /\ last'.ret = 0 /\ last'.arg[2] = FS_DIRECTORY) =>
       \A n \in imap' \ imap :
         \A b \in {getInodeFromTable(StNext, n).directBlocks[1]} :
           /\ fbm' \ fbm = {b}
           /\ CanDir(disk', b)
           /\ DirOf(disk', b) = ZeroDir]_vars

\* C31: every index block that a fs_write has newly taken from the pool (the
\* single-indirect block, the outer block, an inner block) holds, when the call
\* returns, zero in every entry but the ones this call has filled with blocks
\* it took from the pool, whatever the block held before. Stated for descriptors
\* of files that have not been removed.
C31_FreshIndexClean ==
  [][(/\ last'.op = "write"
      /\ last'.ret >= 0
      /\ last'.arg[1] \in DOMAIN fds
      /\ last'.arg[1] \notin stale
      /\ fds[last'.arg[1]].inodeNumber \in imap) =>
       \A n \in {fds[last'.arg[1]].inodeNumber} :
         \A b \in IndexBlocksOf(StNext, getInodeFromTable(StNext, n)) \cap (fbm' \ fbm) :
           NonZero(IdxOf(disk', b), NumIndex) \subseteq fbm' \ fbm]_vars

\* what fs_read returns for the whole file of inode n: a read of fileSize bytes
\* from position 0
WholeFile(st, n) ==
  fs_read([st EXCEPT !.fds = (0 :> [inodeNumber |-> n, filePosition |-> 0])], 0,
          SzOfNat(getInodeFromTable(st, n).fileSize)).buf

\* the directory of inode n as a listing reads it
ListingOf(st, n) ==
  LET b == getInodeFromTable(st, n).directBlocks[1]
  IN IF CanDir(st.disk, b) THEN DirOf(st.disk, b) ELSE <<>>

\* C32: a fs_write of n bytes at position p of file F changes, as later reads
\* and listings see it, only bytes p..p+n-1 of F: the bytes of F before p and
\* the bytes from p+n up to its old size, the content and size of every other
\* file and every directory stay as they were, also when p is not at a block
\* boundary and the block of p is not attached yet. Stated for descriptors of
\* regular files that have not been removed.
C32_WriteFrame ==
  [][(/\ last'.op = "write"
      /\ last'.ret >= 0
      /\ last'.arg[1] \in DOMAIN fds
      /\ last'.arg[1] \notin stale
      /\ fds[last'.arg[1]].inodeNumber \in imap
      /\ getInodeFromTable(St, fds[last'.arg[1]].inodeNumber).fileMode = RegMode) =>
       \A F \in {fds[last'.arg[1]].inodeNumber}, p \in {fds[last'.arg[1]].filePosition} :
         /\ \A m \in imap \ {F} :
              IF getInodeFromTable(St, m).fileMode = RegMode
              THEN /\ m \in imap'
                   /\ getInodeFromTable(StNext, m).fileSize = getInodeFromTable(St, m).fileSize
                   /\ WholeFile(StNext, m) = WholeFile(St, m)
              ELSE /\ m \in imap'
                   /\ ListingOf(StNext, m) = ListingOf(St, m)
         /\ \A old \in {WholeFile(St, F)}, new \in {WholeFile(StNext, F)} :
              \A size \in {getInodeFromTable(St, F).fileSize} :
                /\ RTake(RTake(new, size), p) = RTake(RTake(old, size), p)
                /\ RDrop(RTake(new, size), p + last'.ret) = RDrop(RTake(old, size), p + last'.ret)]_vars

\* the logical blocks at which a write is split: the first block of the
\* single-indirect tier, its last block, and the first block behind it
SplitBlocks == {NumDirect, LastIndirect, LastIndirect + 1}

\* write(fd, the first k bytes of src); write(fd, the rest of src)
SplitWrite(st, fd, src, k, env) ==
  Once({fs_write(first.st, fd, RDrop(src, k), env) :
          first \in {fs_write(st, fd, RTake(src, k), env)}})

\* C33: a fs_write that stores all of its bytes leaves the same file content
\* (read whole from position 0), the same fileSize and the same position as the
\* two calls that write its first k bytes and then the rest, for the split
\* points k at the tier boundaries. Stated for descriptors of regular files
\* that have not been removed.
C33_SplitWrite ==
  [][(/\ last'.op = "write"
      /\ last'.arg[1] \in DOMAIN fds
      /\ last'.arg[1] \notin stale
      /\ fds[last'.arg[1]].inodeNumber \in imap
      /\ getInodeFromTable(St, fds[last'.arg[1]].inodeNumber).fileMode = RegMode
      /\ last'.ret = RLen(last'.arg[2])) =>
       \A fd \in {last'.arg[1]}, src \in {last'.arg[2]} :
         \A L \in SplitBlocks :
           \A k \in {L * BLOCK_SIZE_BYTES - fds[fd].filePosition} :
             (k > 0 /\ k < RLen(src)) =>
               \A two \in {SplitWrite(St, fd, src, k, Env0)} :
                 /\ WholeFile(two.st, fds[fd].inodeNumber)
                      = WholeFile(StNext, fds[fd].inodeNumber)
                 /\ getInodeFromTable(two.st, fds[fd].inodeNumber).fileSize
                      = getInodeFromTable(StNext, fds[fd].inodeNumber).fileSize
                 /\ two.st.fds[fd].filePosition = fds'[fd].filePosition]_vars

\* the logical blocks a read is started at: the last block of the
\* single-indirect tier, the first block behind it, and block 261 + 256
ProbeBlocks == {LastIndirect, LastIndirect + 1, LastIndirect + NumIndex}

\* seek(fd, p, FS_SEEK_SET); read(fd, n): the bytes returned
ReadAt(st, fd, p, n) ==
  Once({fs_read(at.st, fd, SzOfNat(n)).buf :
          at \in {fs_seek(st, fd, OffOfInt(p), "SET", [ovf |-> "wrap"])}})

\* C34: after a write that appended to a file all of whose bytes can be read,
\* seek(fd, p, SET); read(fd, n) returns bytes p .. min(p+n, fileSize)-1 of what
\* one read of the whole file from position 0 returns, for the positions p at
\* the start of logical blocks 261, 262 and 261 + 256.
C34_RandomAccessRead ==
  [][(/\ last'.op = "write"
      /\ last'.ret > 0
      /\ last'.arg[1] \in DOMAIN fds
      /\ last'.arg[1] \notin stale
      /\ fds[last'.arg[1]].inodeNumber \in imap
      /\ getInodeFromTable(St, fds[last'.arg[1]].inodeNumber).fileMode = RegMode
      /\ fds[last'.arg[1]].filePosition
           = getInodeFromTable(St, fds[last'.arg[1]].inodeNumber).fileSize
      /\ RLen(WholeFile(St, fds[last'.arg[1]].inodeNumber))
           = getInodeFromTable(St, fds[last'.arg[1]].inodeNumber).fileSize) =>
       \A fd \in {last'.arg[1]} :
         \A whole \in {WholeFile(StNext, fds[fd].inodeNumber)} :
           \A L \in ProbeBlocks :
             (L + 1) * BLOCK_SIZE_BYTES
                 <= getInodeFromTable(StNext, fds[fd].inodeNumber).fileSize =>
               ReadAt(StNext, fd, L * BLOCK_SIZE_BYTES, BLOCK_SIZE_BYTES)
                 = RTake(RDrop(whole, L * BLOCK_SIZE_BYTES), BLOCK_SIZE_BYTES)]_vars

\* C35: after a fs_write, fileSize is the larger of the old fileSize and the old
\* position plus the bytes written; a write that lies inside the file leaves
\* fileSize as it was. Stated for descriptors of regular files that have not
\* been removed.
C35_OverwriteKeepsSize ==
  [][(/\ last'.op = "write"
      /\ last'.ret >= 0
      /\ last'.arg[1] \in DOMAIN fds
      /\ last'.arg[1] \notin stale
      /\ fds[last'.arg[1]].inodeNumber \in imap
      /\ getInodeFromTable(St, fds[last'.arg[1]].inodeNumber).fileMode = RegMode) =>
       \A size \in {getInodeFromTable(St, fds[last'.arg[1]].inodeNumber).fileSize} :
         \A end \in {fds[last'.arg[1]].filePosition + last'.ret} :
           getInodeFromTable(StNext, fds[last'.arg[1]].inodeNumber).fileSize
             = IF end > size THEN end ELSE size]_vars

\* the non-zero entries of a pointer array as slots <<n, tier, j, i, block id>>
SlotsIn(n, tier, j, ptrs) ==
  {<<n, tier, j, i, ptrs[i]>> : i \in {x \in DOMAIN ptrs : ptrs[x] # 0}}

\* every pointer slot of inode n that holds a block id: its direct pointers, its
\* two index pointers, and the entries of the index blocks reached from them
PointerSlots(st, n) ==
  LET inode == getInodeFromTable(st, n)
      outer == IdxOf(st.disk, inode.doubleIndirectBlock)
  IN SlotsIn(n, "direct", 0, inode.directBlocks)
       \cup (IF inode.indirectBlock = 0 THEN {}
             ELSE {<<n, "indirect", 0, 0, inode.indirectBlock>>}
                    \cup SlotsIn(n, "single", 0, IdxOf(st.disk, inode.indirectBlock)))
       \cup (IF inode.doubleIndirectBlock = 0 THEN {}
             ELSE {<<n, "double", 0, 0, inode.doubleIndirectBlock>>}
                    \cup SlotsIn(n, "outer", 0, outer)
                    \cup UNION {SlotsIn(n, "inner", j, IdxOf(st.disk, outer[j])) :
                                  j \in {x \in DOMAIN outer : outer[x] # 0}})

AllPointerSlots(st) == UNION {PointerSlots(st, n) : n \in st.imap}

\* C36: no block id occurs in more than one pointer slot of the in-use inodes
\* and of the index blocks reached from them: no two files share a data or
\* index block, and no directory block is a file's data or index block.
C36_NoSharedBlock ==
  \A slots \in {AllPointerSlots(St)} :
    Cardinality(slots) = Cardinality({s[5] : s \in slots})

\* C37: every byte that fs_read returns for a file is the byte that fs_write
\* stored in that file at that offset, never what a block held before it came
\* to the file. Checked on the first write to an empty file: the read of the
\* whole file returns the bytes of that write, whatever was created, written
\* and removed before.
C37_NoLeftoverData ==
  [][(/\ last'.op = "write"
      /\ last'.ret > 0
      /\ last'.arg[1] \in DOMAIN fds
      /\ last'.arg[1] \notin stale
      /\ fds[last'.arg[1]].inodeNumber \in imap
      /\ fds[last'.arg[1]].filePosition = 0
      /\ \A inode \in {getInodeFromTable(St, fds[last'.arg[1]].inodeNumber)} :
           /\ inode.fileMode = RegMode
           /\ inode.fileSize = 0
           /\ BlocksOf(St, inode) = {}) =>
       WholeFile(StNext, fds[last'.arg[1]].inodeNumber) = RTake(last'.arg[2], last'.ret)]_vars

\* C38: fs_open, fs_close, fs_seek, fs_read and fs_get_dir, whether they succeed
\* or fail, change no block content, no free-block bit, no inode and no
\* inode-bitmap bit; fs_seek and fs_read change at most the position of their
\* descriptor, and fs_get_dir leaves the descriptor table as it was.
C38_ReadOnlyOps ==
  [][last'.op \in {"open", "close", "seek", "read", "get_dir"} =>
       /\ fbm' = fbm
       /\ disk' = disk
       /\ imap' = imap
       /\ itab' = itab
       /\ file' = file
       /\ last'.op \in {"seek", "read"} =>
            /\ DOMAIN fds' = DOMAIN fds
            /\ \A x \in DOMAIN fds :
                 /\ fds'[x].inodeNumber = fds[x].inodeNumber
                 /\ x # last'.arg[1] => fds'[x] = fds[x]
       /\ last'.op = "get_dir" => fds' = fds]_vars

\* C38 witness: a descriptor has just been closed on a file that holds 100
\* bytes, and the file is still there with its bytes.
C38_Witness ==
  /\ last.op = "close"
  /\ last.ret = 0
  /\ \E n \in imap :
       /\ getInodeFromTable(St, n).fileMode = RegMode
       /\ getInodeFromTable(St, n).fileSize = 100
       /\ WholeFile(St, n) = RConst(100, 1)

\* C39: fs_read, fs_write, fs_seek and fs_close on descriptor a leave every
\* other descriptor b in use, on its inode and at its position, also when a and
\* b are open on the same file; and the bytes a write through a has stored are
\* what seek(b, p, SET); read(b, n) returns at the position p the write started
\* at. Stated for descriptors of regular files that have not been removed.
C39_DescriptorIndependence ==
  [][last'.op \in {"read", "write", "seek", "close"} =>
       \A a \in {last'.arg[1]} :
         /\ \A b \in DOMAIN fds \ {a} : b \in DOMAIN fds' /\ fds'[b] = fds[b]
         /\ (/\ last'.op = "write"
             /\ last'.ret > 0
             /\ a \in DOMAIN fds
             /\ a \notin stale
             /\ fds[a].inodeNumber \in imap
             /\ getInodeFromTable(St, fds[a].inodeNumber).fileMode = RegMode) =>
              \A b \in {x \in DOMAIN fds \ {a} : fds[x].inodeNumber = fds[a].inodeNumber} :
                ReadAt(StNext, b, fds[a].filePosition, last'.ret)
                  = RTake(last'.arg[2], last'.ret)]_vars

====
